---------------------------- MODULE Spec2Model ----------------------------
(***************************************************************************)
(* A model of the browser-resident core of                                 *)
(* capacitor-biometric-auth.                                               *)
(*                                                                         *)
(*   SessionManager (src/unnamed/part_005): storeSession, getSession,      *)
(*   clearSession, isSessionValid, extendSession, encrypt, decrypt.        *)
(*   Buffer codec (src/src/utils/webauthn.ts): toArrayBuffer,              *)
(*   arrayBufferToBase64, arrayBufferToBase64URL, with btoa/atob as the    *)
(*   platform defines them.                                                *)
(*   Option builders and credential reference store (webauthn.ts):         *)
(*   mergeCreateOptions, mergeGetOptions, storeCredentialId,               *)
(*   getStoredCredentialIds, clearStoredCredentialIds.                     *)
(*   Authenticators: WebAdapter (src/src/adapters/WebAdapter.ts) and       *)
(*   BiometricAuthWeb (src/src/web.ts).                                    *)
(*   CredentialManager (src/unnamed/part_005): storeCredential,            *)
(*   getCredential, deleteCredential, listCredentialIds,                   *)
(*   clearAllCredentials.                                                  *)
(*                                                                         *)
(* Strings held in sessionStorage are modelled symbolically: a string is   *)
(* either the base64 text of a binary string or a text atob rejects; a     *)
(* binary string is either a (Latin-1) text or the bytes iv ++ AES-GCM     *)
(* ciphertext.  AES-GCM is modelled as an ideal authenticated cipher:      *)
(* decryption succeeds exactly on an unmodified ciphertext under the key   *)
(* and nonce it was made with, and the raw bytes iv ++ ciphertext ++ tag   *)
(* are never themselves a JSON text.                                       *)
(*                                                                         *)
(* In Spec every SessionManager operation is one action: the clock         *)
(* (Date.now()) advances between operations, not inside one.  RaceSpec     *)
(* splits the operations at their awaits and lets calls overlap.           *)
(***************************************************************************)
EXTENDS Integers, Sequences, FiniteSets, TLC

VARIABLES
    now,        \* Date.now(), in ms
    cipher,     \* the page's crypto.subtle: "ok", "absent" or "failing"
    session,    \* sessionStorage entry under SESSION_KEY
    last,       \* the last call: its operation, argument, result, stored entry before it
    issued,     \* history: the record last persisted, by which call, and whether the
                \* stored string is still the one that call wrote
    bench,      \* pure functions under test: the inputs drawn and the values computed
    localStorage,   \* window.localStorage: a map from the keys present to their strings
    ledger,     \* history: per storage key of the credential reference store, the
                \* identifiers passed to storeCredentialId since the key was last
                \* cleared, each once, in order of first appearance
    credentials,    \* WebAdapter.credentials: credential id -> credential
    sessions,   \* BiometricAuthWeb.sessions: session id -> token and expiry
    config,     \* BiometricAuthWeb.config
    ceremonies, \* history: the calls the last authenticate made to
                \* navigator.credentials, in order, each with the challenge it passed
                \* and what the platform answered
    entropy,    \* the number of random values drawn so far
    enrolled,   \* history: the raw ids of the credentials navigator.credentials.create
                \* has returned to this origin
    blobs,      \* history: per credential id held by CredentialManager, the payload
                \* last stored, the encrypt flag, and whether the stored string is
                \* still the one storeCredential wrote
    storage     \* the page's localStorage and sessionStorage: "up", or "down" when
                \* every getItem, setItem and removeItem raises

\* the state outside SessionManager
webVars ==
    <<localStorage, ledger, credentials, sessions, config, ceremonies, entropy, enrolled,
      blobs, storage>>

\* the state of the two authenticators
pluginVars == <<credentials, sessions, config, ceremonies, entropy, enrolled>>

vars == <<now, cipher, session, last, issued, bench, webVars>>

---------------------------------------------------------------------------
(* Bounds *)

MaxTime == 2        \* the clock runs over 0..MaxTime
MaxDur == 2         \* extendSession durations run over -1..MaxDur
MaxNonce == 2       \* crypto.getRandomValues draws nonces from 1..MaxNonce
MaxLen == 3         \* codec inputs are byte sequences of length 0..MaxLen
MaxEntropy == 8     \* authenticate is called while at most MaxEntropy random values are drawn

Times == 0..MaxTime
Durations == -1..MaxDur
Nonces == 1..MaxNonce
Tokens == {"tokA", "tokB"}
\* metadata: a map of ASCII strings, or a map holding a code point above U+00FF
Metas == {"ascii", "wide"}
\* the (token, metadata) pairs callers pass to storeSession
Profiles == {<<"tokA", "ascii">>, <<"tokB", "wide">>}
CipherModes == {"ok", "absent", "failing"}

---------------------------------------------------------------------------
(* Values *)

\* Capacitor.isNativePlatform(): the model is of the web platform
isNativePlatform == FALSE

Null == [k |-> "null"]
Void == [k |-> "void"]
Throw == [k |-> "throw"]
NoItem == [k |-> "none"]
Bool(b) == [k |-> "bool", b |-> b]
Value(v) == [k |-> "value", v |-> v]

\* a SessionData object; hasExp is FALSE when the object has no expiresAt property
SessionData(tok, exp, meta) ==
    [k |-> "obj", hasExp |-> TRUE, token |-> tok, expiresAt |-> exp, metadata |-> meta]

\* the object {} and the value null, as JSON.parse can return them
JEmpty == [k |-> "obj", hasExp |-> FALSE, token |-> "", expiresAt |-> 0, metadata |-> "none"]
JNull == [k |-> "jnull"]

\* the records a caller passes to storeSession at time t: expiresAt = t + d
SessionRecords(t) ==
    {SessionData(p[1], t + d, p[2]) : p \in Profiles, d \in Durations}

\* a text; json says whether JSON.parse accepts it, wide whether it holds a
\* code point above U+00FF
Text(v) == [k |-> "text", json |-> TRUE, v |-> v, wide |-> (v.k = "obj" /\ v.metadata = "wide")]
Garbage == [k |-> "text", json |-> FALSE, v |-> JNull, wide |-> FALSE]

JSONstringify(v) == Text(v)

JSONparse(s) == IF s.k = "text" /\ s.json THEN s.v ELSE Throw

---------------------------------------------------------------------------
(* btoa / atob on symbolic strings *)

\* btoa throws InvalidCharacterError on a code point above U+00FF
btoa(bin) ==
    IF bin.k = "text" /\ bin.wide THEN Throw
    ELSE [k |-> "b64", bin |-> bin, slack |-> FALSE]

\* atob decodes any base64 text, whatever its unused trailing bits (slack)
atob(s) == IF s.k = "b64" THEN s.bin ELSE Throw

NotBase64 == [k |-> "notb64"]

---------------------------------------------------------------------------
(* SessionManager.encrypt / decrypt *)

\* PBKDF2(ENCRYPTION_KEY, 'biometric-auth-salt', 100000, SHA-256) -> AES-GCM 256
DerivedKey == "pbkdf2(biometric_auth_encryption)"
ForeignKey == "other"

AesGcmEncrypt(key, iv, data) ==
    [k |-> "gcm", key |-> key, iv |-> iv, pt |-> data, intact |-> TRUE]

AesGcmDecrypt(key, iv, ct) ==
    IF ct.k = "gcm" /\ ct.key = key /\ ct.iv = iv /\ ct.intact THEN ct.pt ELSE Throw

\* combined = iv ++ encryptedData
Combined(iv, ct) == [k |-> "ivct", iv |-> iv, ct |-> ct]

\* combined.slice(0, 12) and combined.slice(12) of a decoded binary string
SliceIv(bin) == IF bin.k = "ivct" THEN bin.iv ELSE 0
SliceCt(bin) == IF bin.k = "ivct" THEN bin.ct ELSE [k |-> "noise"]

\* crypto.getRandomValues(new Uint8Array(12)): reached only when the key was derived
IvDraws == IF cipher = "ok" THEN Nonces ELSE {0}

\* a faulty variant: the nonce is a constant instead of fresh random bytes
encryptFixedIv(data, iv) ==
    IF cipher = "absent" THEN btoa(data)
    ELSE IF cipher = "failing" THEN btoa(data)
    ELSE btoa(Combined(1, AesGcmEncrypt(DerivedKey, 1, data)))

encrypt(data, iv) ==
    IF cipher = "absent" THEN btoa(data)
    ELSE IF cipher = "failing" THEN btoa(data)
    ELSE btoa(Combined(iv, AesGcmEncrypt(DerivedKey, iv, data)))

\* a faulty variant: the plaintext is released although the tag does not verify
decryptUnverified(encryptedData) ==
    IF cipher = "absent" THEN atob(encryptedData)
    ELSE LET combined == atob(encryptedData)
         IN IF combined # Throw /\ cipher = "ok" /\ combined.k = "ivct"
            THEN combined.ct.pt ELSE atob(encryptedData)

decrypt(encryptedData) ==
    IF cipher = "absent" THEN atob(encryptedData)
    ELSE LET combined == atob(encryptedData)
             plain == IF combined = Throw \/ cipher = "failing" THEN Throw
                      ELSE AesGcmDecrypt(DerivedKey, SliceIv(combined), SliceCt(combined))
         IN IF plain # Throw THEN plain ELSE atob(encryptedData)

---------------------------------------------------------------------------
(* The buffer codec on concrete data: a string is a sequence of code points, a *)
(* buffer a sequence of bytes                                                  *)

Plus == 43
Slash == 47
Minus == 45
Underscore == 95
Pad == 61

\* the base64 alphabet: A-Z a-z 0-9 + /
B64Char(i) ==
    IF i < 26 THEN 65 + i
    ELSE IF i < 52 THEN 97 + (i - 26)
    ELSE IF i < 62 THEN 48 + (i - 52)
    ELSE IF i = 62 THEN Plus ELSE Slash

B64Index(c) ==
    IF c >= 65 /\ c <= 90 THEN c - 65
    ELSE IF c >= 97 /\ c <= 122 THEN c - 97 + 26
    ELSE IF c >= 48 /\ c <= 57 THEN c - 48 + 52
    ELSE IF c = Plus THEN 62
    ELSE IF c = Slash THEN 63 ELSE -1

Bytes(b) == [k |-> "bytes", b |-> b]

\* btoa of a binary string (every code point below 256)
RECURSIVE btoaBytes(_)
btoaBytes(b) ==
    IF Len(b) = 0 THEN <<>>
    ELSE IF Len(b) = 1
    THEN <<B64Char(b[1] \div 4), B64Char((b[1] % 4) * 16), Pad, Pad>>
    ELSE IF Len(b) = 2
    THEN <<B64Char(b[1] \div 4), B64Char(((b[1] % 4) * 16) + (b[2] \div 16)),
           B64Char((b[2] % 16) * 4), Pad>>
    ELSE <<B64Char(b[1] \div 4), B64Char(((b[1] % 4) * 16) + (b[2] \div 16)),
           B64Char(((b[2] % 16) * 4) + (b[3] \div 64)), B64Char(b[3] % 64)>>
         \o btoaBytes(SubSeq(b, 4, Len(b)))

\* the bytes of a run of base64 characters; the bits left over in a last group of
\* two or three characters are dropped
RECURSIVE DecodeSextets(_)
DecodeSextets(s) ==
    IF Len(s) < 2 THEN <<>>
    ELSE LET a == B64Index(s[1])
             b == B64Index(s[2])
             first == (a * 4) + (b \div 16)
         IN IF Len(s) = 2 THEN <<first>>
            ELSE LET c == B64Index(s[3])
                     second == ((b % 16) * 16) + (c \div 4)
                 IN IF Len(s) = 3 THEN <<first, second>>
                    ELSE <<first, second, ((c % 4) * 64) + B64Index(s[4])>>
                         \o DecodeSextets(SubSeq(s, 5, Len(s)))

IsAsciiWhitespace(c) == c \in {9, 10, 12, 13, 32}

\* atob: forgiving-base64 decode
atobString(s) ==
    LET data == SelectSeq(s, LAMBDA c : ~IsAsciiWhitespace(c))
        n == Len(data)
        cut == IF n > 0 /\ n % 4 = 0 /\ data[n] = Pad
               THEN (IF data[n - 1] = Pad THEN SubSeq(data, 1, n - 2)
                     ELSE SubSeq(data, 1, n - 1))
               ELSE data
    IN IF Len(cut) % 4 = 1 \/ \E i \in 1..Len(cut) : B64Index(cut[i]) = -1
       THEN Throw
       ELSE Bytes(DecodeSextets(cut))

\* String.prototype.replace(/c/g, d)
ReplaceAll(s, c, d) == [i \in 1..Len(s) |-> IF s[i] = c THEN d ELSE s[i]]

\* String.prototype.replace(/c/g, '')
RemoveAll(s, c) == SelectSeq(s, LAMBDA x : x # c)

\* String.prototype.padEnd(n, c)
padEnd(s, n, c) == s \o [i \in 1..(IF n > Len(s) THEN n - Len(s) ELSE 0) |-> c]

\* new TextEncoder().encode(s), for code points of the basic plane
RECURSIVE Utf8(_)
Utf8(s) ==
    IF Len(s) = 0 THEN <<>>
    ELSE LET c == s[1]
             head == IF c < 128 THEN <<c>>
                     ELSE IF c < 2048 THEN <<192 + (c \div 64), 128 + (c % 64)>>
                     ELSE <<224 + (c \div 4096), 128 + ((c \div 64) % 64), 128 + (c % 64)>>
         IN head \o Utf8(Tail(s))

Undefined == [k |-> "undefined"]
ArrayBuffer(b) == [k |-> "ArrayBuffer", b |-> b]
Uint8Array(b) == [k |-> "Uint8Array", b |-> b]
String(s) == [k |-> "string", s |-> s]

\* a faulty variant: the URL-safe characters are not mapped back before atob
toArrayBufferNoUrl(data) ==
    IF data = Undefined \/ (data.k = "string" /\ Len(data.s) = 0) THEN Undefined
    ELSE IF data.k = "ArrayBuffer" THEN data
    ELSE IF data.k = "Uint8Array" THEN ArrayBuffer(data.b)
    ELSE LET first == atobString(padEnd(data.s, Len(data.s) + ((4 - (Len(data.s) % 4)) % 4), Pad))
             second == atobString(data.s)
         IN IF first # Throw THEN ArrayBuffer(first.b)
            ELSE IF second # Throw THEN ArrayBuffer(second.b)
            ELSE ArrayBuffer(Utf8(data.s))

\* a faulty variant: the last fallback is missing, so a string neither atob accepts
\* makes the call throw
toArrayBufferThrows(data) ==
    IF data = Undefined \/ (data.k = "string" /\ Len(data.s) = 0) THEN Undefined
    ELSE IF data.k = "ArrayBuffer" THEN data
    ELSE IF data.k = "Uint8Array" THEN ArrayBuffer(data.b)
    ELSE LET base64 == padEnd(ReplaceAll(ReplaceAll(data.s, Minus, Plus), Underscore, Slash),
                              Len(data.s) + ((4 - (Len(data.s) % 4)) % 4), Pad)
             first == atobString(base64)
             second == atobString(data.s)
         IN IF first # Throw THEN ArrayBuffer(first.b)
            ELSE IF second # Throw THEN ArrayBuffer(second.b)
            ELSE Throw

toArrayBuffer(data) ==
    IF data = Undefined \/ (data.k = "string" /\ Len(data.s) = 0) THEN Undefined
    ELSE IF data.k = "ArrayBuffer" THEN data
    ELSE IF data.k = "Uint8Array" THEN ArrayBuffer(data.b)
    ELSE IF data.k = "string"
    THEN LET base64 == padEnd(ReplaceAll(ReplaceAll(data.s, Minus, Plus), Underscore, Slash),
                              Len(data.s) + ((4 - (Len(data.s) % 4)) % 4), Pad)
             first == atobString(base64)
             second == atobString(data.s)
         IN IF first # Throw THEN ArrayBuffer(first.b)
            ELSE IF second # Throw THEN ArrayBuffer(second.b)
            ELSE ArrayBuffer(Utf8(data.s))
    ELSE Undefined

arrayBufferToBase64(buffer) == btoaBytes(buffer.b)

arrayBufferToBase64URL(buffer) ==
    RemoveAll(ReplaceAll(ReplaceAll(btoaBytes(buffer.b), Plus, Minus), Slash, Underscore), Pad)

---------------------------------------------------------------------------
(* SessionManager operations, as functions of the stored entry and the clock: *)
(* each gives the returned value and the entry left in sessionStorage         *)

Result(ret, store) == [ret |-> ret, store |-> store]

\* a getItem, setItem or removeItem of the page's storage raises
Raises == storage = "down"

clearSessionOp(store) ==
    IF isNativePlatform THEN Result(Void, store)
    ELSE IF Raises THEN Result(Throw, store)
    ELSE Result(Void, NoItem)

storeSessionOp(store, s, iv) ==
    IF isNativePlatform THEN Result(Void, store)
    ELSE LET encryptedData == encrypt(JSONstringify(s), iv)
         IN IF encryptedData = Throw THEN Result(Throw, store)
            ELSE IF Raises THEN Result(Throw, store)
            ELSE Result(Void, encryptedData)

\* a faulty variant: the comparison is turned around
ExpiredAtFlipped(s, t) == s.hasExp /\ s.expiresAt > t

\* session.expiresAt < Date.now(); undefined < n is false
ExpiredAt(s, t) == s.hasExp /\ s.expiresAt < t

\* a faulty variant: the catch and the expiry branch return null without clearSession()
getSessionOpNoPurge(store, t) ==
    IF store = NoItem THEN Result(Null, store)
    ELSE LET decryptedData == decrypt(store)
             s == IF decryptedData = Throw THEN Throw ELSE JSONparse(decryptedData)
         IN IF s = Throw \/ s = JNull \/ ExpiredAt(s, t) THEN Result(Null, store)
            ELSE Result(Value(s), store)

getSessionOp(store, t) ==
    IF isNativePlatform THEN Result(Null, store)
    ELSE IF Raises THEN Result(Throw, store)
    ELSE IF store = NoItem THEN Result(Null, store)
    ELSE LET decryptedData == decrypt(store)
             s == IF decryptedData = Throw THEN Throw ELSE JSONparse(decryptedData)
         IN IF s = Throw \/ s = JNull THEN Result(Null, clearSessionOp(store).store)
            ELSE IF ExpiredAt(s, t) THEN Result(Null, clearSessionOp(store).store)
            ELSE Result(Value(s), store)

\* session !== null && session.expiresAt > Date.now()
isSessionValidOp(store, t) ==
    LET r == getSessionOp(store, t)
    IN IF r.ret = Throw THEN r
       ELSE Result(Bool(r.ret # Null /\ r.ret.v.hasExp /\ r.ret.v.expiresAt > t), r.store)

\* a faulty variant: the new expiry is counted from the old one, not from Date.now()
extendSessionOpFromOld(store, t, durationMs, iv) ==
    LET r == getSessionOp(store, t)
    IN IF r.ret = Null THEN Result(Bool(FALSE), r.store)
       ELSE LET s == [r.ret.v EXCEPT !.hasExp = TRUE,
                                     !.expiresAt = r.ret.v.expiresAt + durationMs]
                w == storeSessionOp(r.store, s, iv)
            IN IF w.ret = Throw THEN w ELSE Result(Bool(TRUE), w.store)

\* a faulty variant: with no session to extend, a new record is written
extendSessionOpUpsert(store, t, durationMs, iv) ==
    LET r == getSessionOp(store, t)
        old == IF r.ret = Null THEN SessionData("tokA", 0, "ascii") ELSE r.ret.v
        s == [old EXCEPT !.hasExp = TRUE, !.expiresAt = t + durationMs]
        w == storeSessionOp(r.store, s, iv)
    IN IF w.ret = Throw THEN w ELSE Result(Bool(TRUE), w.store)

extendSessionOp(store, t, durationMs, iv) ==
    LET r == getSessionOp(store, t)
    IN IF r.ret = Throw THEN r
       ELSE IF r.ret = Null THEN Result(Bool(FALSE), r.store)
       ELSE LET s == [r.ret.v EXCEPT !.hasExp = TRUE, !.expiresAt = t + durationMs]
                w == storeSessionOp(r.store, s, iv)
            IN IF w.ret = Throw THEN w ELSE Result(Bool(TRUE), w.store)

---------------------------------------------------------------------------
(* Strings another script, or the user, can leave in the session entry *)

\* the strings that differ from string s in one character
OneByteChanges(s) ==
    IF s.k # "b64" THEN {NotBase64}
    ELSE {NotBase64, [s EXCEPT !.slack = ~s.slack]}
         \cup (IF s.bin.k = "ivct"
               THEN {[s EXCEPT !.bin.iv = (s.bin.iv % MaxNonce) + 1],
                     [s EXCEPT !.bin.ct.intact = FALSE]}
               ELSE {})
         \cup (IF s.bin.k = "text" /\ s.bin.json /\ s.bin.v.k = "obj" /\ ~s.bin.wide
               THEN {[s EXCEPT !.bin = Garbage]}
                    \cup {[s EXCEPT !.bin = Text([s.bin.v EXCEPT !.expiresAt = e])] :
                             e \in {0, MaxTime + MaxDur} \ {s.bin.v.expiresAt}}
                    \cup {[s EXCEPT !.bin = Text([s.bin.v EXCEPT !.token = tk])] :
                             tk \in Tokens \ {s.bin.v.token}}
               ELSE {})

\* strings encrypt did not produce under the derived key
ForgedStrings ==
    {NotBase64, btoa(Garbage), btoa(Text(JNull)), btoa(Text(JEmpty))}
    \cup {btoa(Text(SessionData("tokB", e, "ascii"))) : e \in {1, MaxTime + MaxDur}}
    \cup {btoa(Combined(1, AesGcmEncrypt(ForeignKey, 1,
                                          Text(SessionData("tokB", MaxTime + MaxDur, "ascii")))))}

---------------------------------------------------------------------------
(* window.localStorage and the credential reference store of webauthn.ts.  A   *)
(* key is the sequence of the pieces it is concatenated from, so that          *)
(* startsWith is the prefix test on the pieces.                                *)

EmptyStorage == <<>>

getItem(store, key) == IF key \in DOMAIN store THEN store[key] ELSE NoItem

setItem(store, key, value) ==
    [k \in DOMAIN store \cup {key} |-> IF k = key THEN value ELSE store[k]]

removeItem(store, key) == [k \in DOMAIN store \ {key} |-> store[k]]

startsWith(key, prefix) ==
    Len(key) >= Len(prefix) /\ SubSeq(key, 1, Len(prefix)) = prefix

\* a userId argument: undefined, or a string
UserId(n) == [k |-> "userId", n |-> n]
UserIds == {Undefined, UserId(""), UserId("default"), UserId("alice"), UserId("bob")}
CredentialIds == {"c1", "c2"}

\* the truthiness test `userId ? ... : ...`
Truthy(userId) == userId # Undefined /\ userId.n # ""

CredPrefix == <<"biometric_", "auth_", "cred_">>

\* `biometric_auth_cred_${userId}` or 'biometric_auth_cred_default'
CredKey(userId) ==
    IF Truthy(userId) THEN CredPrefix \o <<userId.n>> ELSE CredPrefix \o <<"default">>

CredKeys == {CredKey(u) : u \in UserIds}

\* a JSON array of strings
JArray(ids) == [k |-> "arr", ids |-> ids]

includes(arr, x) == \E i \in 1..Len(arr.ids) : arr.ids[i] = x

push(arr, x) == JArray(Append(arr.ids, x))

\* getItem is called inside the try block: when it raises, the catch returns []
getStoredCredentialIdsOp(store, userId) ==
    LET stored == IF Raises THEN Throw ELSE getItem(store, CredKey(userId))
        parsed == IF stored = Throw THEN Throw
                  ELSE IF stored = NoItem THEN JArray(<<>>) ELSE JSONparse(stored)
    IN Result(IF parsed = Throw THEN JArray(<<>>) ELSE parsed, store)

\* a faulty variant: the identifier is appended without looking for it in the index
storeCredentialIdOpNoLookup(store, credentialId, userId) ==
    LET existingCreds == getStoredCredentialIdsOp(store, userId).ret
    IN IF existingCreds.k # "arr" THEN Result(Throw, store)
       ELSE Result(Void, setItem(store, CredKey(userId),
                                 JSONstringify(push(existingCreds, credentialId))))

\* existingCreds.includes throws a TypeError when the parsed value is no array
storeCredentialIdOp(store, credentialId, userId) ==
    LET key == CredKey(userId)
        existingCreds == getStoredCredentialIdsOp(store, userId).ret
    IN IF existingCreds.k # "arr" THEN Result(Throw, store)
       ELSE IF ~includes(existingCreds, credentialId)
       THEN IF Raises THEN Result(Throw, store)
            ELSE Result(Void, setItem(store, key,
                                      JSONstringify(push(existingCreds, credentialId))))
       ELSE Result(Void, store)

\* Object.keys(localStorage) enumerates the keys; removeItem is called once per
\* key found
clearStoredCredentialIdsOp(store, userId) ==
    IF Truthy(userId)
    THEN IF Raises THEN Result(Throw, store)
         ELSE Result(Void, removeItem(store, CredPrefix \o <<userId.n>>))
    ELSE LET keys == {key \in DOMAIN store : startsWith(key, CredPrefix)}
         IN IF keys # {} /\ Raises THEN Result(Throw, store)
            ELSE Result(Void, [k \in DOMAIN store \ keys |-> store[k]])

\* the history of a key: identifier x was passed to storeCredentialId
Remember(h, x) == IF \E i \in 1..Len(h) : h[i] = x THEN h ELSE Append(h, x)

NoLedger == [key \in CredKeys |-> <<>>]

---------------------------------------------------------------------------
(* CredentialManager (src/unnamed/part_005): payloads kept in localStorage     *)
(* under 'biometric_credential_' + id, sealed with SessionManager.encrypt      *)

\* CREDENTIAL_PREFIX = 'biometric_credential_'
CREDENTIAL_PREFIX == <<"biometric_", "credential_">>

BlobKey(credentialId) == CREDENTIAL_PREFIX \o <<credentialId>>

\* key.substring(n), n being the length of a prefix of the key
substring(key, prefix) == SubSeq(key, Len(prefix) + 1, Len(key))

\* serializable payloads: one of Latin-1 text, one with a code point above U+00FF
Payloads == {SessionData(p[1], 0, p[2]) : p \in Profiles}

\* encrypt && crypto.subtle
Sealing(flag) == flag /\ cipher # "absent"

storeCredentialOp(store, credentialId, credentialData, encryptFlag, iv) ==
    LET key == BlobKey(credentialId)
        dataStr == JSONstringify(credentialData)
    IN IF Sealing(encryptFlag)
       THEN LET encryptedData == encrypt(dataStr, iv)
            IN IF encryptedData = Throw THEN Result(Throw, store)
               ELSE IF Raises THEN Result(Throw, store)
               ELSE Result(Void, setItem(store, key, encryptedData))
       ELSE IF Raises THEN Result(Throw, store)
       ELSE Result(Void, setItem(store, key, dataStr))

\* a faulty variant: a failure to decrypt or parse is rethrown
getCredentialOpRethrow(store, credentialId, decryptFlag) ==
    LET storedData == getItem(store, BlobKey(credentialId))
        text == IF Sealing(decryptFlag) THEN decrypt(storedData) ELSE storedData
        parsed == IF text = Throw THEN Throw ELSE JSONparse(text)
    IN IF Raises THEN Result(Throw, store)
       ELSE IF storedData = NoItem THEN Result(Null, store)
       ELSE IF parsed = Throw THEN Result(Throw, store)
       ELSE IF parsed = JNull THEN Result(Null, store)
       ELSE Result(Value(parsed), store)

\* getItem is called before the try block; the catch covers decrypt and JSON.parse
getCredentialOp(store, credentialId, decryptFlag) ==
    LET storedData == getItem(store, BlobKey(credentialId))
        text == IF Sealing(decryptFlag) THEN decrypt(storedData) ELSE storedData
        parsed == IF text = Throw THEN Throw ELSE JSONparse(text)
    IN IF Raises THEN Result(Throw, store)
       ELSE IF storedData = NoItem THEN Result(Null, store)
       ELSE IF parsed = Throw THEN Result(Null, store)
       ELSE IF parsed = JNull THEN Result(Null, store)
       ELSE Result(Value(parsed), store)

\* a faulty variant: every key that starts with the key of the id is removed
deleteCredentialOpByPrefix(store, credentialId) ==
    IF Raises THEN Result(Throw, store)
    ELSE Result(Void, [k \in {x \in DOMAIN store : ~startsWith(x, CREDENTIAL_PREFIX)} |->
                          store[k]])

deleteCredentialOp(store, credentialId) ==
    IF Raises THEN Result(Throw, store)
    ELSE Result(Void, removeItem(store, BlobKey(credentialId)))

\* the ids found, as a set: localStorage.key(i) enumerates in no specified order
IdSet(ids) == [k |-> "ids", ids |-> ids]

listCredentialIdsOp(store) ==
    Result(IdSet({substring(key, CREDENTIAL_PREFIX) :
                     key \in {x \in DOMAIN store : startsWith(x, CREDENTIAL_PREFIX)}}),
           store)

clearAllCredentialsOp(store) ==
    LET keys == {key \in DOMAIN store : startsWith(key, CREDENTIAL_PREFIX)}
    IN IF keys # {} /\ Raises THEN Result(Throw, store)
       ELSE Result(Void, [k \in DOMAIN store \ keys |-> store[k]])

\* the history of an id after storeCredential wrote payload p
Blob(p, encryptFlag) == [p |-> p, encrypt |-> encryptFlag, intact |-> TRUE]

\* the history of an id whose stored string was overwritten from outside
Spoiled == [p |-> JNull, encrypt |-> FALSE, intact |-> FALSE]


---------------------------------------------------------------------------
(* The option builders of webauthn.ts.  An options object is a record holding  *)
(* every property it can have, with undefined for a property that is absent;   *)
(* names and enumeration values are opaque strings, numbers are integers,      *)
(* challenges and credential ids are the codec's inputs.                       *)

Str(t) == [k |-> "str", t |-> t]
Num(num) == [k |-> "num", num |-> num]
List(items) == [k |-> "list", items |-> items]
\* an object used as a map (extensions, authenticatorSelection): m is a function
\* from the property names present to their values
Map(m) == [k |-> "map", m |-> m]

\* the operand test of `a || b`
JsTruthy(v) ==
    /\ v.k # "undefined"
    /\ ~(v.k = "str" /\ v.t = "")
    /\ ~(v.k = "num" /\ v.num = 0)
    /\ ~(v.k = "string" /\ Len(v.s) = 0)

\* a || b
Or(a, b) == IF JsTruthy(a) THEN a ELSE b

\* o?.f
Opt(o, f) == IF o.k = "undefined" THEN Undefined ELSE o[f]

\* {...a, ...b}, where spreading undefined adds nothing
Spread(a, b) ==
    LET ma == IF a.k = "map" THEN a.m ELSE <<>>
        mb == IF b.k = "map" THEN b.m ELSE <<>>
    IN Map([key \in DOMAIN ma \cup DOMAIN mb |->
               IF key \in DOMAIN mb THEN mb[key] ELSE ma[key]])

\* window.location.hostname
hostname == Str("app.example")
\* `user@${window.location.hostname}`
userAtHostname == Str("user@app.example")

ChallengeBytes == 32
UserHandleBytes == 16
DefaultTimeout == 60000
ES256 == -7
RS256 == -257

\* crypto.getRandomValues(new Uint8Array(n)).buffer: n bytes, here all equal to the
\* byte drawn
RandomBuffer(n, draw) == ArrayBuffer([i \in 1..n |-> draw])

generateChallenge(draw) == RandomBuffer(ChallengeBytes, draw)

PubKeyParam(alg) == [k |-> "param", alg |-> alg, type |-> "public-key"]

\* a credential descriptor as a caller or a site default gives it
Descriptor(id, transports) ==
    [k |-> "descriptor", id |-> id, type |-> "public-key", transports |-> transports]

RpEntity(name, id) == [k |-> "rp", name |-> name, id |-> id]
UserEntity(id, name, displayName) ==
    [k |-> "user", id |-> id, name |-> name, displayName |-> displayName]

\* an options object with no property set
NoCreateOptions ==
    [k |-> "createOptions", challenge |-> Undefined, rp |-> Undefined, user |-> Undefined,
     pubKeyCredParams |-> Undefined, timeout |-> Undefined, attestation |-> Undefined,
     authenticatorSelection |-> Undefined, attestationFormats |-> Undefined,
     excludeCredentials |-> Undefined, extensions |-> Undefined, hints |-> Undefined]

NoGetOptions ==
    [k |-> "getOptions", challenge |-> Undefined, rpId |-> Undefined,
     timeout |-> Undefined, allowCredentials |-> Undefined,
     userVerification |-> Undefined, extensions |-> Undefined, hints |-> Undefined]

\* [...a, ...b]
Concat(a, b) == List(a.items \o b.items)

mergeCreateOptions(userOptions, defaults, draw) ==
    LET challenge == Or(toArrayBuffer(Opt(userOptions, "challenge")), generateChallenge(draw))
        urp == Opt(userOptions, "rp")
        drp == Opt(defaults, "rp")
        uuser == Opt(userOptions, "user")
        duser == Opt(defaults, "user")
        duid == Opt(duser, "id")
        options ==
            [NoCreateOptions EXCEPT
                !.challenge = challenge,
                !.rp = RpEntity(Or(Or(Opt(urp, "name"), Opt(drp, "name")), hostname),
                                Or(Or(Opt(urp, "id"), Opt(drp, "id")), hostname)),
                !.user = UserEntity(
                    Or(Or(toArrayBuffer(Opt(uuser, "id")),
                          IF duid.k \in {"ArrayBuffer", "Uint8Array"}
                          THEN toArrayBuffer(duid) ELSE Undefined),
                       RandomBuffer(UserHandleBytes, draw)),
                    Or(Or(Opt(uuser, "name"), Opt(duser, "name")), userAtHostname),
                    Or(Or(Opt(uuser, "displayName"), Opt(duser, "displayName")), Str("User"))),
                !.pubKeyCredParams =
                    Or(Or(Opt(userOptions, "pubKeyCredParams"), Opt(defaults, "pubKeyCredParams")),
                       List(<<PubKeyParam(ES256), PubKeyParam(RS256)>>)),
                !.timeout = Or(Or(Opt(userOptions, "timeout"), Opt(defaults, "timeout")),
                               Num(DefaultTimeout)),
                !.attestation = Or(Or(Opt(userOptions, "attestation"), Opt(defaults, "attestation")),
                                   Str("none"))]
        uexcl == Opt(userOptions, "excludeCredentials")
    IN [options EXCEPT
           !.authenticatorSelection =
               IF JsTruthy(Opt(userOptions, "authenticatorSelection"))
                  \/ JsTruthy(Opt(defaults, "authenticatorSelection"))
               THEN Spread(Opt(defaults, "authenticatorSelection"),
                           Opt(userOptions, "authenticatorSelection"))
               ELSE Undefined,
           !.attestationFormats =
               IF JsTruthy(Opt(userOptions, "attestationFormats"))
               THEN Opt(userOptions, "attestationFormats") ELSE Undefined,
           !.excludeCredentials =
               IF JsTruthy(uexcl)
               THEN List([i \in 1..Len(uexcl.items) |->
                             [uexcl.items[i] EXCEPT !.id = toArrayBuffer(uexcl.items[i].id)]])
               ELSE Undefined,
           !.extensions =
               IF JsTruthy(Opt(userOptions, "extensions"))
               THEN Opt(userOptions, "extensions") ELSE Undefined,
           !.hints =
               IF JsTruthy(Opt(userOptions, "hints"))
               THEN Opt(userOptions, "hints") ELSE Undefined]

mergeGetOptions(userOptions, defaults, draw) ==
    LET challenge == Or(toArrayBuffer(Opt(userOptions, "challenge")), generateChallenge(draw))
        options ==
            [NoGetOptions EXCEPT
                !.challenge = challenge,
                !.timeout = Or(Or(Opt(userOptions, "timeout"), Opt(defaults, "timeout")),
                               Num(DefaultTimeout))]
        userCreds == Or(Opt(userOptions, "allowCredentials"), List(<<>>))
        defaultCreds == Or(Opt(defaults, "allowCredentials"), List(<<>>))
        creds == Concat(userCreds, defaultCreds)
    IN [options EXCEPT
           !.rpId =
               IF JsTruthy(Opt(userOptions, "rpId")) \/ JsTruthy(Opt(defaults, "rpId"))
               THEN Or(Opt(userOptions, "rpId"), Opt(defaults, "rpId")) ELSE Undefined,
           !.allowCredentials =
               IF JsTruthy(Opt(userOptions, "allowCredentials"))
                  \/ JsTruthy(Opt(defaults, "allowCredentials"))
               THEN List([i \in 1..Len(creds.items) |->
                             Descriptor(toArrayBuffer(creds.items[i].id),
                                        creds.items[i].transports)])
               ELSE Undefined,
           !.userVerification =
               IF JsTruthy(Opt(userOptions, "userVerification"))
                  \/ JsTruthy(Opt(defaults, "userVerification"))
               THEN Or(Opt(userOptions, "userVerification"), Opt(defaults, "userVerification"))
               ELSE Undefined,
           !.extensions =
               IF JsTruthy(Opt(userOptions, "extensions")) \/ JsTruthy(Opt(defaults, "extensions"))
               THEN Spread(Opt(defaults, "extensions"), Opt(userOptions, "extensions"))
               ELSE Undefined,
           !.hints =
               IF JsTruthy(Opt(userOptions, "hints"))
               THEN Opt(userOptions, "hints") ELSE Undefined]

---------------------------------------------------------------------------
(* WebAdapter (src/src/adapters/WebAdapter.ts) and BiometricAuthWeb            *)
(* (src/src/web.ts).  navigator.credentials and the availability probe are the *)
(* environment: each call of authenticate is given what they answer.  Random    *)
(* values are fresh: the n-th value drawn differs from every other.            *)

\* 'biometric_credential_ids'
CredentialIdsKey == <<"biometric_", "credential_", "ids">>

SessionDurationDefault == 3600
MsPerSecond == 1000

\* window.PublicKeyCredential and isUserVerifyingPlatformAuthenticatorAvailable()
PlatformStates == {"available", "noApi", "noAuthenticator", "probeFails"}

\* what navigator.credentials.get / create answers: a credential, null, or a rejection
Credential(rawId) == [k |-> "credential", rawId |-> rawId]
Rejected(name) == [k |-> "rejected", name |-> name]
RawIds == {<<65>>, <<251, 255>>}
ErrorNames == {"NotAllowedError", "InvalidStateError", "TypeError"}
Outcomes == {Credential(rawId) : rawId \in RawIds} \cup {Null} \cup {Rejected(n) : n \in ErrorNames}

\* options?.platform?.web || {}, of which the challenge is modelled
NoWebOptions == [k |-> "webOptions", challenge |-> Undefined]
WebOptionSamples ==
    {NoWebOptions, [NoWebOptions EXCEPT !.challenge = ArrayBuffer([i \in 1..ChallengeBytes |-> 65])]}

\* crypto.getRandomValues(new Uint8Array(n)): n bytes, all equal to the serial
\* number of the draw
RandomBytes(n, draw) == Uint8Array([i \in 1..n |-> draw])

Ceremony(primitive, challenge, outcome) ==
    [primitive |-> primitive, challenge |-> challenge, outcome |-> outcome]

AuthResult(success, code, sessionId) ==
    [k |-> "result", success |-> success, code |-> code, sessionId |-> sessionId]

Failed(code) == AuthResult(FALSE, code, 0)

adapterIsAvailable(platform) == platform = "available"

adapterGetStoredCredentialIds(store) ==
    LET stored == getItem(store, CredentialIdsKey)
    IN IF stored = NoItem THEN JArray(<<>>)
       ELSE IF JSONparse(stored) = Throw THEN JArray(<<>>) ELSE JSONparse(stored)

saveCredentialId(store, id) ==
    LET existing == adapterGetStoredCredentialIds(store)
    IN IF ~includes(existing, id)
       THEN setItem(store, CredentialIdsKey, JSONstringify(push(existing, id)))
       ELSE store

\* WebAdapter.base64ToArrayBuffer
base64ToArrayBuffer(base64) == atobString(base64.s)

\* a faulty variant: a failed assertion is reported as a found credential
getExistingCredentialOpOptimistic(store, options, outcome, draw) ==
    LET storedIds == adapterGetStoredCredentialIds(store)
        challenge == Or(options.challenge, RandomBytes(ChallengeBytes, draw))
    IN IF Len(storedIds.ids) = 0 THEN [ret |-> Null, calls |-> <<>>]
       ELSE [ret |-> IF outcome = Null THEN Null ELSE Credential(<<>>),
             calls |-> <<Ceremony("get", challenge, outcome)>>]

\* the credential found, or null, and the call made to navigator.credentials.get
getExistingCredentialOp(store, options, outcome, draw) ==
    LET storedIds == adapterGetStoredCredentialIds(store)
        challenge == Or(options.challenge, RandomBytes(ChallengeBytes, draw))
        decodable == \A i \in 1..Len(storedIds.ids) :
                         base64ToArrayBuffer(storedIds.ids[i]) # Throw
    IN IF Len(storedIds.ids) = 0 THEN [ret |-> Null, calls |-> <<>>]
       ELSE IF ~decodable THEN [ret |-> Null, calls |-> <<>>]
       ELSE [ret |-> IF outcome.k = "credential" THEN outcome ELSE Null,
             calls |-> <<Ceremony("get", challenge, outcome)>>]

\* the credential created, or null, and the call made to navigator.credentials.create
createCredentialOp(options, outcome, draw) ==
    LET challenge == Or(options.challenge, RandomBytes(ChallengeBytes, draw))
    IN [ret |-> IF outcome.k = "credential" THEN outcome ELSE Null,
        calls |-> <<Ceremony("create", challenge, outcome)>>]

\* the names of the DOMException a localStorage access may raise; "none": it works
StorageErrors == {"none", "SecurityError", "QuotaExceededError"}

\* WebAdapter.handleError: the code given to a DOMException of that name
handleError(name) ==
    IF name \in {"NotAllowedError", "AbortError"} THEN "USER_CANCELLED"
    ELSE IF name \in {"SecurityError", "InvalidStateError"} THEN "AUTHENTICATION_FAILED"
    ELSE IF name = "NotSupportedError" THEN "BIOMETRIC_UNAVAILABLE"
    ELSE "UNKNOWN_ERROR"

\* WebAdapter.authenticate: the result, the storage and the credentials map it
\* leaves, and the ceremonies it ran.  The draws e+1 .. e+4 are the challenge of the
\* assertion, the challenge of the registration, the user handle and the session id.
\* storageError is what the first access to localStorage raises (in
\* getStoredCredentialIds, outside the inner try blocks): only that reaches the
\* outer catch and handleError.
adapterAuthenticateOp(store, creds, options, platform, getOutcome, createOutcome, e, storageError) ==
    IF ~adapterIsAvailable(platform)
    THEN [ret |-> Failed("BIOMETRIC_UNAVAILABLE"), store |-> store, creds |-> creds,
          calls |-> <<>>]
    ELSE IF storageError # "none"
    THEN [ret |-> Failed(handleError(storageError)), store |-> store, creds |-> creds,
          calls |-> <<>>]
    ELSE LET existing == getExistingCredentialOp(store, options, getOutcome, e + 1)
         IN IF existing.ret # Null
            THEN [ret |-> AuthResult(TRUE, "", e + 4), store |-> store, creds |-> creds,
                  calls |-> existing.calls]
            ELSE LET created == createCredentialOp(options, createOutcome, e + 2)
                     credentialId == String(arrayBufferToBase64(ArrayBuffer(created.ret.rawId)))
                 IN IF created.ret # Null
                    THEN [ret |-> AuthResult(TRUE, "", e + 4),
                          store |-> saveCredentialId(store, credentialId),
                          creds |-> [id \in DOMAIN creds \cup {credentialId} |->
                                        IF id = credentialId THEN created.ret ELSE creds[id]],
                          calls |-> existing.calls \o created.calls]
                    ELSE [ret |-> Failed("AUTHENTICATION_FAILED"), store |-> store,
                          creds |-> creds, calls |-> existing.calls \o created.calls]

\* BiometricAuthWeb.isAvailable().available
webIsAvailable(platform) == platform = "available"

\* the code the catch block of BiometricAuthWeb.authenticate gives an error name
webErrorCode(name) ==
    IF name = "NotAllowedError" THEN "userCancelled"
    ELSE IF name = "NotSupportedError" THEN "notAvailable"
    ELSE IF name = "InvalidStateError" THEN "invalidContext"
    ELSE "unknown"

\* the token of a session: btoa(JSON.stringify({credentialId, timestamp, sessionId}))
SessionToken(credentialId, timestamp, sessionId) ==
    btoa(Text([k |-> "token", credentialId |-> credentialId, timestamp |-> timestamp,
               sessionId |-> sessionId]))

cleanupExpiredSessions(map, t) ==
    [id \in {x \in DOMAIN map : ~(map[x].expiresAt < t)} |-> map[id]]

\* BiometricAuthWeb.authenticate: the result, the sessions map it leaves and the
\* ceremony it ran.  The draws e+1 .. e+3 are the challenge, the user handle and the
\* session id.
webAuthenticateOp(map, cfg, platform, createOutcome, t, e) ==
    IF ~webIsAvailable(platform)
    THEN [ret |-> Failed("notAvailable"), sessions |-> map, calls |-> <<>>]
    ELSE LET challenge == RandomBytes(ChallengeBytes, e + 1)
             calls == <<Ceremony("create", challenge, createOutcome)>>
         IN IF createOutcome.k = "rejected"
            THEN [ret |-> Failed(webErrorCode(createOutcome.name)), sessions |-> map,
                  calls |-> calls]
            ELSE IF createOutcome.k = "credential"
            THEN LET sessionId == e + 3
                     credentialId == String(arrayBufferToBase64URL(ArrayBuffer(createOutcome.rawId)))
                     token == SessionToken(credentialId, t, sessionId)
                     duration == Or(cfg.sessionDuration, Num(SessionDurationDefault))
                     expiresAt == t + (duration.num * MsPerSecond)
                     added == [id \in DOMAIN map \cup {sessionId} |->
                                  IF id = sessionId
                                  THEN [token |-> token, expiresAt |-> expiresAt]
                                  ELSE map[id]]
                 IN [ret |-> AuthResult(TRUE, "", sessionId),
                     sessions |-> cleanupExpiredSessions(added, t), calls |-> calls]
            ELSE [ret |-> Failed("authenticationFailed"), sessions |-> map, calls |-> calls]

DefaultConfig == [sessionDuration |-> Num(SessionDurationDefault)]

\* BiometricAuthWeb.deleteCredentials: sessions.clear(), then every key of
\* localStorage that starts with 'biometric_auth_' is removed
webDeleteCredentialsOp(store) ==
    [k \in {x \in DOMAIN store : ~startsWith(x, <<"biometric_", "auth_">>)} |-> store[k]]

\* BiometricAuthWeb.configure: the configuration is merged first and validated
\* afterwards.  A property the argument does not carry is Undefined here.
configureOp(cfg, arg) ==
    LET merged == [sessionDuration |-> IF arg.sessionDuration.k = "undefined"
                                       THEN cfg.sessionDuration
                                       ELSE arg.sessionDuration]
    IN [ret |-> IF JsTruthy(arg.sessionDuration) /\ arg.sessionDuration.num < 0
                THEN Throw ELSE Void,
        config |-> merged]

\* the raw ids navigator.credentials.create returned in these calls
Registered(calls) ==
    {calls[i].outcome.rawId :
        i \in {j \in 1..Len(calls) : calls[j].primitive = "create"
                                      /\ calls[j].outcome.k = "credential"}}

WebIdle ==
    /\ localStorage = EmptyStorage
    /\ ledger = NoLedger
    /\ credentials = <<>>
    /\ sessions = <<>>
    /\ config = DefaultConfig
    /\ ceremonies = <<>>
    /\ entropy = 0
    /\ enrolled = {}
    /\ blobs = <<>>
    /\ storage = "up"

---------------------------------------------------------------------------
(* The state machine *)

Idle == [op |-> "idle"]
NoIssue == [k |-> "none"]
\* rec was persisted by call `by`; future: its expiresAt was later than the clock then
Issue(by, rec, future) ==
    [k |-> "some", by |-> by, rec |-> rec, future |-> future, intact |-> TRUE]
NoBench == [stage |-> "off"]

\* a call that reads the entry records the entry it found
Call(op, arg, pre, r) == [op |-> op, arg |-> arg, pre |-> pre, ret |-> r.ret]
Write(op, arg, r) == [op |-> op, arg |-> arg, ret |-> r.ret]

Init ==
    /\ now = 0
    /\ cipher \in CipherModes
    /\ session = NoItem
    /\ last = Idle
    /\ issued = NoIssue
    /\ bench = NoBench
    /\ WebIdle

Tick ==
    /\ now < MaxTime
    /\ now' = now + 1
    /\ last' = Idle
    /\ UNCHANGED <<cipher, session, issued, bench, webVars>>

storeSession ==
    \E s \in SessionRecords(now), iv \in IvDraws :
        LET r == storeSessionOp(session, s, iv)
        IN /\ session' = r.store
           /\ last' = Write("storeSession", Value(s), r)
           /\ issued' = IF r.ret = Throw THEN issued
                        ELSE Issue("storeSession", s, s.expiresAt > now)
           /\ UNCHANGED <<now, cipher, bench, webVars>>

getSession ==
    LET r == getSessionOp(session, now)
    IN /\ session' = r.store
       /\ last' = Call("getSession", Void, session, r)
       /\ UNCHANGED <<now, cipher, issued, bench, webVars>>

clearSession ==
    LET r == clearSessionOp(session)
    IN /\ session' = r.store
       /\ last' = Write("clearSession", Void, r)
       /\ issued' = NoIssue
       /\ UNCHANGED <<now, cipher, bench, webVars>>

isSessionValid ==
    LET r == isSessionValidOp(session, now)
    IN /\ session' = r.store
       /\ last' = Call("isSessionValid", Void, session, r)
       /\ UNCHANGED <<now, cipher, issued, bench, webVars>>

extendSession ==
    \E d \in Durations, iv \in IvDraws :
        LET r == extendSessionOp(session, now, d, iv)
        IN /\ session' = r.store
           /\ last' = Call("extendSession", Value(d), session, r)
           /\ issued' = IF r.ret = Bool(TRUE)
                        THEN Issue("extendSession", JSONparse(decrypt(r.store)), d > 0)
                        ELSE issued
           /\ UNCHANGED <<now, cipher, bench, webVars>>

\* one character of the stored string is changed
Tamper ==
    /\ session # NoItem
    /\ \E s \in OneByteChanges(session) :
           /\ session' = s
           /\ last' = [op |-> "tamper"]
    /\ issued' = IF issued # NoIssue /\ issued.intact
                 THEN [issued EXCEPT !.intact = FALSE] ELSE NoIssue
    /\ UNCHANGED <<now, cipher, bench, webVars>>

\* a string not made by encrypt is written into the entry
Forge ==
    /\ \E s \in ForgedStrings :
           /\ session' = s
           /\ last' = [op |-> "forge"]
    /\ issued' = NoIssue
    /\ UNCHANGED <<now, cipher, bench, webVars>>

Next ==
    \/ Tick
    \/ storeSession
    \/ getSession
    \/ clearSession
    \/ isSessionValid
    \/ extendSession
    \/ Tamper
    \/ Forge

Spec == Init /\ [][Next]_vars

---------------------------------------------------------------------------
(* The codec applied to drawn byte sequences *)

ByteSamples == {0, 65, 251, 255}
ByteSeqs == UNION {[1..n -> ByteSamples] : n \in 0..MaxLen}

Quiet ==
    /\ now = 0
    /\ session = NoItem
    /\ last = Idle
    /\ issued = NoIssue
    /\ WebIdle

CodecInit ==
    /\ Quiet
    /\ cipher = "ok"
    /\ bench \in {[stage |-> "bytes", b |-> b] : b \in ByteSeqs}

Encode ==
    /\ bench.stage = "bytes"
    /\ bench' = [stage |-> "encoded", b |-> bench.b,
                 s |-> arrayBufferToBase64URL(ArrayBuffer(bench.b))]
    /\ UNCHANGED <<now, cipher, session, last, issued, webVars>>

Decode ==
    /\ bench.stage = "encoded"
    /\ bench' = [stage |-> "decoded", b |-> bench.b, s |-> bench.s,
                 out |-> toArrayBuffer(String(bench.s))]
    /\ UNCHANGED <<now, cipher, session, last, issued, webVars>>

CodecNext ==
    \/ Encode
    \/ Decode

CodecSpec == CodecInit /\ [][CodecNext]_vars

---------------------------------------------------------------------------
(* encrypt and decrypt applied to drawn plaintexts, nonces and read times *)

CipherInit ==
    /\ Quiet
    /\ cipher \in CipherModes
    /\ bench \in {[stage |-> "drawn", r |-> r, p |-> JSONstringify(r),
                    n1 |-> n1, n2 |-> n2, t |-> t] :
                      r \in SessionRecords(0), n1 \in Nonces, n2 \in Nonces, t \in Times}

EncryptTwice ==
    /\ bench.stage = "drawn"
    /\ bench' = [stage |-> "sealed", r |-> bench.r, p |-> bench.p,
                 n1 |-> bench.n1, n2 |-> bench.n2, t |-> bench.t,
                 e1 |-> encrypt(bench.p, bench.n1), e2 |-> encrypt(bench.p, bench.n2)]
    /\ UNCHANGED <<now, cipher, session, last, issued, webVars>>

DecryptBoth ==
    /\ bench.stage = "sealed"
    /\ bench.e1 # Throw
    /\ bench' = [stage |-> "opened", r |-> bench.r, p |-> bench.p,
                 n1 |-> bench.n1, n2 |-> bench.n2, t |-> bench.t,
                 e1 |-> bench.e1, e2 |-> bench.e2,
                 d1 |-> decrypt(bench.e1), d2 |-> decrypt(bench.e2)]
    /\ UNCHANGED <<now, cipher, session, last, issued, webVars>>

\* storeSession(r) on an empty entry with nonce n1, then getSession() at time t
StoreThenGet ==
    /\ bench.stage = "opened"
    /\ bench' = [stage |-> "read", r |-> bench.r, p |-> bench.p,
                 n1 |-> bench.n1, n2 |-> bench.n2, t |-> bench.t,
                 e1 |-> bench.e1, e2 |-> bench.e2, d1 |-> bench.d1, d2 |-> bench.d2,
                 got |-> getSessionOp(storeSessionOp(NoItem, bench.r, bench.n1).store,
                                      bench.t).ret]
    /\ UNCHANGED <<now, cipher, session, last, issued, webVars>>

CipherNext ==
    \/ EncryptTwice
    \/ DecryptBoth
    \/ StoreThenGet

CipherSpec == CipherInit /\ [][CipherNext]_vars

---------------------------------------------------------------------------
(* toArrayBuffer applied to every input shape a caller may pass *)

\* code points of ' ', '-', '=', 'Q', '_' and the euro sign
CharSamples == {32, 45, 61, 81, 95, 8364}
CharSeqs == UNION {[1..n -> CharSamples] : n \in 0..MaxLen}

BufferInputs ==
    {Undefined}
    \cup {String(s) : s \in CharSeqs}
    \cup {ArrayBuffer(b) : b \in ByteSeqs}
    \cup {Uint8Array(b) : b \in ByteSeqs}

BufferInit ==
    /\ Quiet
    /\ cipher = "ok"
    /\ bench \in {[stage |-> "input", data |-> d] : d \in BufferInputs}

Convert ==
    /\ bench.stage = "input"
    /\ bench' = [stage |-> "converted", data |-> bench.data,
                 out |-> toArrayBuffer(bench.data)]
    /\ UNCHANGED <<now, cipher, session, last, issued, webVars>>

BufferNext ==
    \/ Convert

BufferSpec == BufferInit /\ [][BufferNext]_vars

---------------------------------------------------------------------------
(* The credential reference store: any sequence of its three operations *)

CredCall(op, id, userId, pre, r) ==
    [op |-> op, id |-> id, userId |-> userId, pre |-> pre, ret |-> r.ret]

CredInit ==
    /\ Quiet
    /\ cipher = "ok"
    /\ bench = NoBench

storeCredentialId ==
    \E credentialId \in CredentialIds, userId \in UserIds :
        LET r == storeCredentialIdOp(localStorage, credentialId, userId)
        IN /\ localStorage' = r.store
           /\ ledger' = IF r.ret = Throw THEN ledger
                        ELSE [ledger EXCEPT ![CredKey(userId)] = Remember(@, credentialId)]
           /\ last' = CredCall("storeCredentialId", credentialId, userId, localStorage, r)
           /\ UNCHANGED <<now, cipher, session, issued, bench, pluginVars, blobs, storage>>

getStoredCredentialIds ==
    \E userId \in UserIds :
        LET r == getStoredCredentialIdsOp(localStorage, userId)
        IN /\ localStorage' = r.store
           /\ last' = CredCall("getStoredCredentialIds", "", userId, localStorage, r)
           /\ UNCHANGED <<now, cipher, session, issued, bench, ledger, pluginVars, blobs,
                          storage>>

clearStoredCredentialIds ==
    \E userId \in UserIds :
        LET r == clearStoredCredentialIdsOp(localStorage, userId)
        IN /\ localStorage' = r.store
           /\ ledger' = IF r.ret = Throw THEN ledger
                        ELSE IF Truthy(userId)
                        THEN [ledger EXCEPT ![CredKey(userId)] = <<>>]
                        ELSE NoLedger
           /\ last' = CredCall("clearStoredCredentialIds", "", userId, localStorage, r)
           /\ UNCHANGED <<now, cipher, session, issued, bench, pluginVars, blobs, storage>>

CredNext ==
    \/ storeCredentialId
    \/ getStoredCredentialIds
    \/ clearStoredCredentialIds

CredSpec == CredInit /\ [][CredNext]_vars

---------------------------------------------------------------------------
(* The option builders applied to drawn caller options and site defaults *)

\* caller values of a string property: absent, empty, set
RpSamples ==
    {Undefined, RpEntity(Str("X"), Undefined), RpEntity(Str(""), Str("rp.example")),
     RpEntity(Undefined, Str("")), RpEntity(Str("X"), Str("rp.example"))}

UserSamples ==
    {Undefined, UserEntity(Undefined, Undefined, Str("Ann")),
     UserEntity(Undefined, Str(""), Undefined),
     UserEntity(Uint8Array(<<65>>), Str("ann"), Str(""))}

ParamSamples == {Undefined, List(<<>>), List(<<PubKeyParam(ES256)>>)}
TimeoutSamples == {Undefined, Num(0), Num(30000)}
AttestationSamples == {Undefined, Str("direct")}
RpIdSamples == {Undefined, Str(""), Str("rp.example")}
VerificationSamples == {Undefined, Str("required")}

\* the forms of a credential id: buffer, byte array, base64 text 'QQ', the empty
\* string, a text that is not base64
IdForms ==
    {ArrayBuffer(<<65>>), Uint8Array(<<65, 66>>), String(<<81, 81>>), String(<<>>),
     String(<<8364>>)}

CredentialLists ==
    {Undefined, List(<<>>)}
    \cup {List(<<Descriptor(id, Undefined)>>) : id \in IdForms}
    \cup {List(<<Descriptor(String(<<81, 81>>), List(<<"usb">>)),
                 Descriptor(ArrayBuffer(<<66>>), Undefined)>>)}

ExtensionSamples ==
    {Undefined, Map("credProps" :> Bool(FALSE)), Map("uvm" :> Bool(TRUE))}

SelectionSamples == {Undefined, Map("residentKey" :> Str("required"))}

\* a caller challenge: absent, empty, one byte as base64 text, an empty buffer, a
\* one-byte array, a buffer of 32 bytes
ChallengeSamples ==
    {Undefined, String(<<>>), String(<<81, 81>>), ArrayBuffer(<<>>), Uint8Array(<<65>>),
     ArrayBuffer([i \in 1..ChallengeBytes |-> 65])}

SiteExtensions == Map("credProps" :> Bool(TRUE) @@ "appid" :> Str("site"))
SiteCredentials == List(<<Descriptor(ArrayBuffer(<<67>>), Undefined)>>)

\* site defaults: none, an empty object, every property set
CreateDefaults ==
    {Undefined, NoCreateOptions,
     [NoCreateOptions EXCEPT
         !.rp = RpEntity(Str("Site"), Str("site.example")),
         !.user = UserEntity(ArrayBuffer(<<83>>), Str("site-user"), Str("Site User")),
         !.pubKeyCredParams = List(<<PubKeyParam(RS256)>>),
         !.timeout = Num(120000),
         !.attestation = Str("indirect"),
         !.authenticatorSelection = Map("userVerification" :> Str("required")),
         !.excludeCredentials = SiteCredentials,
         !.extensions = SiteExtensions]}

GetDefaults ==
    {Undefined, NoGetOptions,
     [NoGetOptions EXCEPT
         !.rpId = Str("site.example"),
         !.timeout = Num(120000),
         !.userVerification = Str("preferred"),
         !.allowCredentials = SiteCredentials,
         !.extensions = SiteExtensions]}

\* caller options for registration: none; the scalar properties in every
\* combination; the list properties in every combination; the challenge forms
CreateCallers ==
    {Undefined}
    \cup {[NoCreateOptions EXCEPT !.rp = rp, !.user = user, !.pubKeyCredParams = params,
                                  !.timeout = timeout, !.attestation = attestation] :
             rp \in RpSamples, user \in UserSamples, params \in ParamSamples,
             timeout \in TimeoutSamples, attestation \in AttestationSamples}
    \cup {[NoCreateOptions EXCEPT !.excludeCredentials = creds, !.extensions = ext,
                                  !.authenticatorSelection = sel] :
             creds \in CredentialLists, ext \in ExtensionSamples, sel \in SelectionSamples}
    \cup {[NoCreateOptions EXCEPT !.challenge = c] : c \in ChallengeSamples}

GetCallers ==
    {Undefined}
    \cup {[NoGetOptions EXCEPT !.rpId = rpId, !.timeout = timeout,
                               !.userVerification = uv] :
             rpId \in RpIdSamples, timeout \in TimeoutSamples, uv \in VerificationSamples}
    \cup {[NoGetOptions EXCEPT !.allowCredentials = creds, !.extensions = ext] :
             creds \in CredentialLists, ext \in ExtensionSamples}
    \cup {[NoGetOptions EXCEPT !.challenge = c] : c \in ChallengeSamples}

MergeInit ==
    /\ Quiet
    /\ cipher = "ok"
    /\ bench \in {[stage |-> "options", builder |-> "create", userOptions |-> u,
                    defaults |-> d, draw |-> n] :
                      u \in CreateCallers, d \in CreateDefaults, n \in Nonces}
                 \cup {[stage |-> "options", builder |-> "get", userOptions |-> u,
                         defaults |-> d, draw |-> n] :
                      u \in GetCallers, d \in GetDefaults, n \in Nonces}

MergeCreate ==
    /\ bench.stage = "options" /\ bench.builder = "create"
    /\ bench' = [stage |-> "merged", builder |-> "create",
                 userOptions |-> bench.userOptions, defaults |-> bench.defaults,
                 draw |-> bench.draw,
                 out |-> mergeCreateOptions(bench.userOptions, bench.defaults, bench.draw)]
    /\ UNCHANGED <<now, cipher, session, last, issued, webVars>>

MergeGet ==
    /\ bench.stage = "options" /\ bench.builder = "get"
    /\ bench' = [stage |-> "merged", builder |-> "get",
                 userOptions |-> bench.userOptions, defaults |-> bench.defaults,
                 draw |-> bench.draw,
                 out |-> mergeGetOptions(bench.userOptions, bench.defaults, bench.draw)]
    /\ UNCHANGED <<now, cipher, session, last, issued, webVars>>

MergeNext ==
    \/ MergeCreate
    \/ MergeGet

MergeSpec == MergeInit /\ [][MergeNext]_vars

---------------------------------------------------------------------------
(* The two authenticators: any sequence of authenticate and deleteCredentials  *)
(* calls, with the clock advancing between calls                               *)

AuthCall(op, options, ret) ==
    [op |-> op, options |-> options, ret |-> ret,
     preStorage |-> localStorage, preSessions |-> sessions, preCredentials |-> credentials,
     preEnrolled |-> enrolled]

\* the arguments of configure: no sessionDuration, a negative, zero, a positive one
ConfigSamples ==
    {[k |-> "config", sessionDuration |-> d] : d \in {Undefined, Num(-1), Num(0), Num(1)}}

WebInit ==
    /\ Quiet
    /\ cipher = "ok"
    /\ bench = NoBench

adapterAuthenticate ==
    /\ entropy + 4 <= MaxEntropy
    /\ \E options \in WebOptionSamples, platform \in PlatformStates,
          getOutcome \in Outcomes, createOutcome \in Outcomes,
          storageError \in StorageErrors :
           LET r == adapterAuthenticateOp(localStorage, credentials, options, platform,
                                          getOutcome, createOutcome, entropy, storageError)
           IN /\ localStorage' = r.store
              /\ credentials' = r.creds
              /\ ceremonies' = r.calls
              /\ enrolled' = enrolled \cup Registered(r.calls)
              /\ last' = AuthCall("WebAdapter.authenticate", options, r.ret)
    /\ entropy' = entropy + 4
    /\ UNCHANGED <<now, cipher, session, issued, bench, ledger, sessions, config, blobs,
                   storage>>

adapterDeleteCredentials ==
    /\ credentials' = <<>>
    /\ localStorage' = removeItem(localStorage, CredentialIdsKey)
    /\ ceremonies' = <<>>
    /\ last' = [op |-> "WebAdapter.deleteCredentials"]
    /\ UNCHANGED <<now, cipher, session, issued, bench, ledger, sessions, config, entropy,
                   enrolled, blobs, storage>>

webAuthenticate ==
    /\ entropy + 3 <= MaxEntropy
    /\ \E platform \in PlatformStates, createOutcome \in Outcomes :
           LET r == webAuthenticateOp(sessions, config, platform, createOutcome, now, entropy)
           IN /\ sessions' = r.sessions
              /\ ceremonies' = r.calls
              /\ enrolled' = enrolled \cup Registered(r.calls)
              /\ last' = AuthCall("BiometricAuthWeb.authenticate", NoWebOptions, r.ret)
    /\ entropy' = entropy + 3
    /\ UNCHANGED <<now, cipher, session, issued, bench, localStorage, ledger, credentials,
                   config, blobs, storage>>

webDeleteCredentials ==
    /\ sessions' = <<>>
    /\ localStorage' = webDeleteCredentialsOp(localStorage)
    /\ ceremonies' = <<>>
    /\ last' = [op |-> "BiometricAuthWeb.deleteCredentials"]
    /\ UNCHANGED <<now, cipher, session, issued, bench, ledger, credentials, config, entropy,
                   enrolled, blobs, storage>>

configure ==
    \E arg \in ConfigSamples :
        LET r == configureOp(config, arg)
        IN /\ config' = r.config
           /\ ceremonies' = <<>>
           /\ last' = [op |-> "BiometricAuthWeb.configure", arg |-> arg, ret |-> r.ret,
                       preConfig |-> config]
           /\ UNCHANGED <<now, cipher, session, issued, bench, localStorage, ledger,
                          credentials, sessions, entropy, enrolled, blobs, storage>>

WebNext ==
    \/ Tick
    \/ adapterAuthenticate
    \/ adapterDeleteCredentials
    \/ webAuthenticate
    \/ webDeleteCredentials
    \/ configure

WebSpec == WebInit /\ [][WebNext]_vars

---------------------------------------------------------------------------
(* CredentialManager: any sequence of its operations, with the clock advancing, *)
(* session operations in between, and other scripts overwriting stored values   *)

\* a call records the string it found stored for its id, and the keys it found
\* that hold no payload of CredentialManager
BlobCall(op, id, flag, r) ==
    [op |-> op, id |-> id, flag |-> flag,
     pre |-> getItem(localStorage, BlobKey(id)),
     foreign |-> {key \in DOMAIN localStorage : \A x \in DOMAIN blobs : key # BlobKey(x)},
     ret |-> r.ret]

\* the history without the ids in gone
Forget(h, gone) == [id \in DOMAIN h \ gone |-> h[id]]

BlobInit ==
    /\ Quiet
    /\ cipher \in CipherModes
    /\ bench = NoBench

storeCredential ==
    \E credentialId \in CredentialIds, credentialData \in Payloads, encryptFlag \in BOOLEAN,
       iv \in IvDraws :
        LET r == storeCredentialOp(localStorage, credentialId, credentialData, encryptFlag, iv)
        IN /\ localStorage' = r.store
           /\ blobs' = IF r.ret = Throw THEN blobs
                       ELSE [id \in DOMAIN blobs \cup {credentialId} |->
                                IF id = credentialId THEN Blob(credentialData, encryptFlag)
                                ELSE blobs[id]]
           /\ last' = BlobCall("storeCredential", credentialId, encryptFlag, r)
           /\ UNCHANGED <<now, cipher, session, issued, bench, ledger, pluginVars, storage>>

getCredential ==
    \E credentialId \in CredentialIds, decryptFlag \in BOOLEAN :
        LET r == getCredentialOp(localStorage, credentialId, decryptFlag)
        IN /\ localStorage' = r.store
           /\ last' = BlobCall("getCredential", credentialId, decryptFlag, r)
           /\ UNCHANGED <<now, cipher, session, issued, bench, ledger, pluginVars, blobs,
                          storage>>

deleteCredential ==
    \E credentialId \in CredentialIds :
        LET r == deleteCredentialOp(localStorage, credentialId)
        IN /\ localStorage' = r.store
           /\ blobs' = IF r.ret = Throw THEN blobs ELSE Forget(blobs, {credentialId})
           /\ last' = BlobCall("deleteCredential", credentialId, FALSE, r)
           /\ UNCHANGED <<now, cipher, session, issued, bench, ledger, pluginVars, storage>>

listCredentialIds ==
    LET r == listCredentialIdsOp(localStorage)
    IN /\ localStorage' = r.store
       /\ last' = BlobCall("listCredentialIds", "", FALSE, r)
       /\ UNCHANGED <<now, cipher, session, issued, bench, ledger, pluginVars, blobs, storage>>

clearAllCredentials ==
    LET r == clearAllCredentialsOp(localStorage)
    IN /\ localStorage' = r.store
       /\ blobs' = IF r.ret = Throw THEN blobs ELSE <<>>
       /\ last' = BlobCall("clearAllCredentials", "", FALSE, r)
       /\ UNCHANGED <<now, cipher, session, issued, bench, ledger, pluginVars, storage>>

\* the strings another script can leave in place of a stored string: a text that
\* is not base64, a text that is not JSON, the base64 of such a text, and an
\* envelope sealed under another key
CorruptStrings ==
    {NotBase64, Garbage, btoa(Garbage),
     btoa(Combined(1, AesGcmEncrypt(ForeignKey, 1, Text(JEmpty))))}

\* the value stored for an id is overwritten from outside CredentialManager
Corrupt ==
    \E credentialId \in DOMAIN blobs :
        \E s \in CorruptStrings \ {localStorage[BlobKey(credentialId)]} :
            /\ localStorage' = setItem(localStorage, BlobKey(credentialId), s)
            /\ blobs' = [blobs EXCEPT ![credentialId] = Spoiled]
            /\ last' = [op |-> "corrupt", id |-> credentialId]
            /\ UNCHANGED <<now, cipher, session, issued, bench, ledger, pluginVars, storage>>

BlobNext ==
    \/ Tick
    \/ clearSession
    \/ storeCredential
    \/ getCredential
    \/ deleteCredential
    \/ listCredentialIds
    \/ clearAllCredentials
    \/ Corrupt

BlobSpec == BlobInit /\ [][BlobNext]_vars

---------------------------------------------------------------------------
(* CredentialManager and WebAdapter on one page: both keep their data in the   *)
(* page's localStorage                                                         *)

\* the page has drawn random values before: one authenticate call remains within
\* the bound on draws
SharedInit ==
    /\ now = 0
    /\ cipher = "ok"
    /\ session = NoItem
    /\ last = Idle
    /\ issued = NoIssue
    /\ bench = NoBench
    /\ localStorage = EmptyStorage
    /\ ledger = NoLedger
    /\ credentials = <<>>
    /\ sessions = <<>>
    /\ config = DefaultConfig
    /\ ceremonies = <<>>
    /\ entropy = MaxEntropy - 4
    /\ enrolled = {}
    /\ blobs = <<>>
    /\ storage = "up"

SharedNext ==
    \/ storeCredential
    \/ deleteCredential
    \/ listCredentialIds
    \/ clearAllCredentials
    \/ adapterAuthenticate
    \/ adapterDeleteCredentials

SharedSpec == SharedInit /\ [][SharedNext]_vars

---------------------------------------------------------------------------
(* A page whose storage is unreachable: every operation of SessionManager, of  *)
(* the credential reference store and of CredentialManager is called            *)

OutageInit ==
    /\ now = 0
    /\ cipher \in CipherModes
    /\ session = NoItem
    /\ last = Idle
    /\ issued = NoIssue
    /\ bench = NoBench
    /\ localStorage = EmptyStorage
    /\ ledger = NoLedger
    /\ credentials = <<>>
    /\ sessions = <<>>
    /\ config = DefaultConfig
    /\ ceremonies = <<>>
    /\ entropy = 0
    /\ enrolled = {}
    /\ blobs = <<>>
    /\ storage = "down"

OutageNext ==
    \/ storeSession
    \/ getSession
    \/ clearSession
    \/ isSessionValid
    \/ extendSession
    \/ storeCredentialId
    \/ getStoredCredentialIds
    \/ clearStoredCredentialIds
    \/ storeCredential
    \/ getCredential
    \/ deleteCredential

OutageSpec == OutageInit /\ [][OutageNext]_vars

---------------------------------------------------------------------------
(* SessionManager with overlapping calls.  JavaScript runs one call at a time  *)
(* up to its next await: storeSession suspends in `await this.encrypt(...)`    *)
(* before it calls setItem; getSession calls getItem, suspends in `await       *)
(* this.decrypt(...)`, and on resuming parses, reads Date.now() and, for an     *)
(* expired or unreadable entry, runs removeItem (clearSession has no await      *)
(* before it); extendSession suspends in getSession and again in storeSession.  *)
(* Any call may start or resume while another is suspended.                    *)
(*                                                                             *)
(* bench holds the calls: calls[i] is call i, suspended at pc or done; writes  *)
(* counts the setItem calls so far; kept is the string and record of the last  *)
(* setItem, until clearSession or a purge by getSession removes it; loggedOut   *)
(* says that clearSession ran and no storeSession wrote since.                 *)

MaxCalls == 3

Done == [op |-> "done"]
NoWrite == [k |-> "none"]
Written(env, rec) == [k |-> "some", env |-> env, rec |-> rec]

\* the records passed to storeSession at time t, and the extension asked for
RaceRecords(t) == {SessionData(tok, t + 1, "ascii") : tok \in Tokens}
RaceDuration == MaxDur

RaceInit ==
    /\ Quiet
    /\ cipher \in CipherModes
    /\ bench = [stage |-> "race", calls |-> <<>>, writes |-> 0, kept |-> NoWrite,
                loggedOut |-> FALSE]

\* a call starts: it gets the next number
Start(call) == [bench EXCEPT !.calls = Append(@, call)]
Resume(i, call) == [bench EXCEPT !.calls[i] = call]

Step(op, i, what) == [op |-> op, call |-> i, what |-> what]

\* storeSession up to its await: the envelope is computed, nothing is written yet
callStoreSession ==
    /\ Len(bench.calls) < MaxCalls
    /\ \E s \in RaceRecords(now), iv \in IvDraws :
           /\ bench' = Start([op |-> "storeSession", pc |-> "setItem",
                              env |-> encrypt(JSONstringify(s), iv), rec |-> s])
           /\ last' = Step("storeSession", Len(bench.calls) + 1, "called")
    /\ UNCHANGED <<now, cipher, session, issued, webVars>>

\* sessionStorage.setItem(SESSION_KEY, encryptedData), of storeSession or of the
\* storeSession inside extendSession
resumeSetItem ==
    \E i \in DOMAIN bench.calls :
        /\ bench.calls[i].op \in {"storeSession", "extendSession"}
        /\ bench.calls[i].pc = "setItem"
        /\ session' = bench.calls[i].env
        /\ bench' = [bench EXCEPT !.calls[i] = Done,
                                  !.writes = @ + 1,
                                  !.kept = Written(bench.calls[i].env, bench.calls[i].rec),
                                  !.loggedOut = IF bench.calls[i].op = "storeSession"
                                                THEN FALSE ELSE @]
        /\ last' = Step(bench.calls[i].op, i, "setItem")
        /\ UNCHANGED <<now, cipher, issued, webVars>>

\* getSession, or the getSession inside extendSession, up to its await: getItem
\* found nothing and null is returned, or the string found goes to decrypt
Reading(op, d) ==
    IF session = NoItem THEN Done
    ELSE [op |-> op, pc |-> "parse", read |-> session, seen |-> bench.writes, d |-> d]

callGetSession ==
    /\ Len(bench.calls) < MaxCalls
    /\ bench' = Start(Reading("getSession", 0))
    /\ last' = Step("getSession", Len(bench.calls) + 1, "getItem")
    /\ UNCHANGED <<now, cipher, session, issued, webVars>>

callExtendSession ==
    /\ Len(bench.calls) < MaxCalls
    /\ bench' = Start(Reading("extendSession", RaceDuration))
    /\ last' = Step("extendSession", Len(bench.calls) + 1, "getItem")
    /\ UNCHANGED <<now, cipher, session, issued, webVars>>

\* the string read gives no session: decrypt or JSON.parse throws, or the record
\* has expired by now
NoSessionIn(read, t) ==
    LET decryptedData == decrypt(read)
        s == IF decryptedData = Throw THEN Throw ELSE JSONparse(decryptedData)
    IN s = Throw \/ s = JNull \/ ExpiredAt(s, t)

\* after decrypt: the catch block or the expiry branch runs clearSession()
resumePurge ==
    \E i \in DOMAIN bench.calls :
        /\ bench.calls[i].op \in {"getSession", "extendSession"}
        /\ bench.calls[i].pc = "parse"
        /\ NoSessionIn(bench.calls[i].read, now)
        /\ session' = clearSessionOp(session).store
        /\ bench' = [bench EXCEPT !.calls[i] = Done,
                                  !.kept = IF bench.calls[i].op = "getSession"
                                              \/ bench.calls[i].seen = bench.writes
                                           THEN NoWrite ELSE @]
        /\ last' = [op |-> bench.calls[i].op, call |-> i, what |-> "purge",
                    seen |-> bench.calls[i].seen, writes |-> bench.writes,
                    removed |-> session]
        /\ UNCHANGED <<now, cipher, issued, webVars>>

\* after decrypt: the session read is returned; extendSession goes on to set
\* expiresAt = Date.now() + durationMs and to call storeSession, up to its await
resumeReturn ==
    \E i \in DOMAIN bench.calls, iv \in IvDraws :
        /\ bench.calls[i].op \in {"getSession", "extendSession"}
        /\ bench.calls[i].pc = "parse"
        /\ ~NoSessionIn(bench.calls[i].read, now)
        /\ LET s == JSONparse(decrypt(bench.calls[i].read))
               x == [s EXCEPT !.hasExp = TRUE, !.expiresAt = now + bench.calls[i].d]
           IN bench' = IF bench.calls[i].op = "getSession"
                       THEN Resume(i, Done)
                       ELSE Resume(i, [op |-> "extendSession", pc |-> "setItem",
                                       env |-> encrypt(JSONstringify(x), iv), rec |-> x])
        /\ last' = Step(bench.calls[i].op, i, "read")
        /\ UNCHANGED <<now, cipher, session, issued, webVars>>

\* clearSession has no await before removeItem
callClearSession ==
    /\ Len(bench.calls) < MaxCalls
    /\ session' = clearSessionOp(session).store
    /\ bench' = [Start(Done) EXCEPT !.kept = NoWrite, !.loggedOut = TRUE]
    /\ last' = Step("clearSession", Len(bench.calls) + 1, "removeItem")
    /\ UNCHANGED <<now, cipher, issued, webVars>>

RaceNext ==
    \/ Tick
    \/ callStoreSession
    \/ resumeSetItem
    \/ callGetSession
    \/ callExtendSession
    \/ resumePurge
    \/ resumeReturn
    \/ callClearSession

RaceSpec == RaceInit /\ [][RaceNext]_vars

---------------------------------------------------------------------------
(* What a stored string is, as the claims speak of it *)

\* the string passes authenticated decryption under the derived key
Authentic(s) ==
    /\ s.k = "b64" /\ s.bin.k = "ivct" /\ s.bin.ct.k = "gcm"
    /\ s.bin.ct.key = DerivedKey /\ s.bin.ct.iv = s.bin.iv /\ s.bin.ct.intact

Absent(s) == s = NoItem

\* decrypt or JSON.parse throws on the string
Unreadable(s) ==
    /\ s # NoItem
    /\ \/ decrypt(s) = Throw
       \/ JSONparse(decrypt(s)) = Throw

\* the object the string holds, for a string that is there and readable
Held(s) == JSONparse(decrypt(s))

HoldsRecord(s) == s # NoItem /\ ~Unreadable(s) /\ Held(s).k = "obj" /\ Held(s).hasExp

HoldsExpired(s, t) == HoldsRecord(s) /\ Held(s).expiresAt < t

HoldsUnexpired(s, t) == HoldsRecord(s) /\ Held(s).expiresAt >= t

\* the call wrote its record
Wrote == last.op \in {"storeSession", "extendSession"} /\ last.ret \in {Void, Bool(TRUE)}

\* the record storeSession persisted is the stored one, no extend, clear or change since
Live(by) == issued # NoIssue /\ issued.by = by /\ issued.intact

---------------------------------------------------------------------------
(* Claims *)

\* C1: a session persisted by storeSession at t0 with expiresAt = t0 + d, d > 0, and
\* not extended or cleared since, is valid (isSessionValid() true) at every time up
\* to t0 + d - 1, and from t0 + d + 1 on getSession() returns null and
\* isSessionValid() returns false.
C1_Expiry ==
    Live("storeSession") /\ issued.future =>
        /\ (last.op = "isSessionValid" /\ now <= issued.rec.expiresAt - 1
               => last.ret = Bool(TRUE))
        /\ (last.op = "isSessionValid" /\ now >= issued.rec.expiresAt + 1
               => last.ret = Bool(FALSE))
        /\ (last.op = "getSession" /\ now >= issued.rec.expiresAt + 1
               => last.ret = Null)

C1_Witness ==
    /\ Live("storeSession") /\ issued.future
    /\ last.op = "isSessionValid" /\ now >= issued.rec.expiresAt + 1
    /\ last.ret = Bool(FALSE) /\ HoldsRecord(last.pre)

\* C2 (as claimed): with the cipher available, getSession() returns a record only
\* if the stored string passes authenticated decryption under the derived key;
\* every other string gives null.
C2_AuthenticOnly ==
    cipher = "ok" /\ last.op = "getSession" /\ last.ret # Null /\ last.ret.v.hasExp
    => Authentic(last.pre)

C4_ValidIffSession ==
    last.op = "isSessionValid" =>
        last.ret = Bool(getSessionOp(last.pre, now).ret # Null)

C6_WrittenInFuture ==
    Wrote => Held(session).expiresAt > now

\* C7: extendSession(durationMs) at time t on an existing unexpired session returns
\* true and leaves stored the previous record with expiresAt = t + durationMs, token
\* and metadata unchanged; the session is then valid at every time before
\* t + durationMs.
C7_Extend ==
    /\ (last.op = "extendSession" /\ HoldsUnexpired(last.pre, now) =>
           /\ last.ret = Bool(TRUE)
           /\ HoldsRecord(session)
           /\ Held(session) = [Held(last.pre) EXCEPT !.expiresAt = now + last.arg.v])
    /\ (last.op = "isSessionValid" /\ Live("extendSession")
            /\ now < issued.rec.expiresAt
        => last.ret = Bool(TRUE))

\* an extension, after some time has passed, to an expiry later than the old one
C7_Witness ==
    /\ last.op = "extendSession" /\ HoldsUnexpired(last.pre, now) /\ now > 0
    /\ last.ret = Bool(TRUE)
    /\ Held(last.pre).expiresAt < Held(session).expiresAt

\* C8: extendSession() returns false and leaves no session record in storage when
\* no valid session exists at the call: the entry is absent, expired, or cannot be
\* decrypted.
C8_NoSessionNoExtend ==
    last.op = "extendSession"
        /\ (Absent(last.pre) \/ Unreadable(last.pre) \/ HoldsExpired(last.pre, now))
    => last.ret = Bool(FALSE) /\ session = NoItem

C8_Witness ==
    /\ last.op = "extendSession" /\ HoldsExpired(last.pre, now)
    /\ last.ret = Bool(FALSE) /\ session = NoItem

\* C9: with the cipher available, two encryptions of one plaintext under different
\* nonces give different envelopes, decrypt(encrypt(p)) = p, and storeSession(r)
\* followed by getSession() before expiry returns a record equal to r.
C9_RoundTrip ==
    cipher = "ok" =>
        /\ (bench.stage \in {"sealed", "opened", "read"} /\ bench.n1 # bench.n2
               => bench.e1 # bench.e2)
        /\ (bench.stage \in {"opened", "read"}
               => bench.d1 = bench.p /\ bench.d2 = bench.p)
        /\ (bench.stage = "read" /\ bench.t <= bench.r.expiresAt
               => bench.got = Value(bench.r))

C9_Witness ==
    /\ cipher = "ok" /\ bench.stage = "read" /\ bench.n1 # bench.n2
    /\ bench.e1 # bench.e2 /\ bench.d1 = bench.p /\ bench.d2 = bench.p
    /\ bench.r.metadata = "wide"
    /\ bench.t > 0 /\ bench.t <= bench.r.expiresAt /\ bench.got = Value(bench.r)

\* C10 (as claimed): for every byte sequence b, the empty one included,
\* toArrayBuffer(arrayBufferToBase64URL(b)) holds exactly the bytes of b.
C10_RoundTrip ==
    bench.stage = "decoded" => bench.out = ArrayBuffer(bench.b)

\* C10 (amended): for every non-empty byte sequence b,
\* toArrayBuffer(arrayBufferToBase64URL(b)) holds exactly the bytes of b.
C10_RoundTripNonEmpty ==
    bench.stage = "decoded" /\ Len(bench.b) > 0 => bench.out = ArrayBuffer(bench.b)

\* bytes whose encoding uses both URL-safe characters, '-' and '_', and no padding
C10_Witness ==
    /\ bench.stage = "decoded" /\ Len(bench.b) = 3
    /\ \E i \in 1..Len(bench.s) : bench.s[i] = Minus
    /\ \E i \in 1..Len(bench.s) : bench.s[i] = Underscore
    /\ bench.out = ArrayBuffer(bench.b)

---------------------------------------------------------------------------
(* The buffer codec on arbitrary input *)

\* the three decodings toArrayBuffer tries on a string, in order
UrlSafeStep(s) ==
    atobString(padEnd(ReplaceAll(ReplaceAll(s, Minus, Plus), Underscore, Slash),
                      Len(s) + ((4 - (Len(s) % 4)) % 4), Pad))
StandardStep(s) == atobString(s)
Utf8Step(s) == Bytes(Utf8(s))

FirstSuccess(s) ==
    IF UrlSafeStep(s) # Throw THEN ArrayBuffer(UrlSafeStep(s).b)
    ELSE IF StandardStep(s) # Throw THEN ArrayBuffer(StandardStep(s).b)
    ELSE ArrayBuffer(Utf8Step(s).b)

\* C11: toArrayBuffer never throws; undefined and the empty string give undefined,
\* a binary input gives a buffer of the same bytes, and a non-empty string gives the
\* bytes of the first decoding that succeeds among URL-safe base64 with padding
\* normalisation, standard base64 and UTF-8 encoding.
C11_NeverThrows ==
    bench.stage = "converted" =>
        /\ bench.out # Throw
        /\ (bench.data = Undefined \/ bench.data = String(<<>>) => bench.out = Undefined)
        /\ (bench.data # Undefined /\ bench.data.k \in {"ArrayBuffer", "Uint8Array"}
            => bench.out = ArrayBuffer(bench.data.b))
        /\ (bench.data # Undefined /\ bench.data.k = "string" /\ Len(bench.data.s) > 0
            => bench.out = FirstSuccess(bench.data.s))

\* a string the URL-safe decoding rejects and the standard decoding accepts has been
\* converted to the bytes of the standard decoding
C11_Witness ==
    /\ bench.stage = "converted"
    /\ bench.data # Undefined /\ bench.data.k = "string" /\ Len(bench.data.s) > 0
    /\ UrlSafeStep(bench.data.s) = Throw
    /\ StandardStep(bench.data.s) # Throw
    /\ bench.out = ArrayBuffer(StandardStep(bench.data.s).b)

---------------------------------------------------------------------------
(* The credential reference store *)

\* the index a storage holds for a userId argument
IndexOf(store, userId) == getStoredCredentialIdsOp(store, userId).ret

NoRepeats(ids) == \A i, j \in 1..Len(ids) : i # j => ids[i] # ids[j]

\* C12: after any sequence of storeCredentialId, getStoredCredentialIds and
\* clearStoredCredentialIds calls, the index of each scope (a scope being the
\* storage key the userId argument selects) is the list of the distinct identifiers
\* stored in it since its last clear, in order of first insertion; no identifier
\* appears twice, getStoredCredentialIds returns that list, and storing an
\* identifier already present leaves the index and the storage unchanged.
C12_DistinctInOrder ==
    /\ \A u \in UserIds :
           /\ IndexOf(localStorage, u) = JArray(ledger[CredKey(u)])
           /\ NoRepeats(IndexOf(localStorage, u).ids)
    /\ (last.op = "getStoredCredentialIds" => last.ret = JArray(ledger[CredKey(last.userId)]))
    /\ (last.op = "storeCredentialId" /\ includes(IndexOf(last.pre, last.userId), last.id)
        => localStorage = last.pre)

\* an identifier already in a two-entry index has just been stored again
C12_Witness ==
    /\ last.op = "storeCredentialId"
    /\ Len(IndexOf(last.pre, last.userId).ids) = 2
    /\ includes(IndexOf(last.pre, last.userId), last.id)
    /\ IndexOf(localStorage, last.userId).ids[1] = last.id

\* the scope a userId argument names: the user's own, or the default bucket when no
\* scope is given (undefined or the empty string)
ScopeOf(userId) == IF Truthy(userId) THEN <<"user", userId.n>> ELSE <<"default bucket">>

\* C13: storeCredentialId or clearStoredCredentialIds applied to one user scope, or
\* to the default bucket, leaves the index of every other scope unchanged, for every
\* scope name; clearStoredCredentialIds with no scope empties every scope's index.
C13_ScopesIndependent ==
    /\ (last.op = "storeCredentialId"
         \/ (last.op = "clearStoredCredentialIds" /\ Truthy(last.userId))
        => \A u \in UserIds :
               ScopeOf(u) # ScopeOf(last.userId)
               => IndexOf(localStorage, u) = IndexOf(last.pre, u))
    /\ (last.op = "clearStoredCredentialIds" /\ ~Truthy(last.userId)
        => \A u \in UserIds : IndexOf(localStorage, u) = JArray(<<>>))

---------------------------------------------------------------------------
(* The option builders *)

Merged(builder) == bench.stage = "merged" /\ bench.builder = builder

\* a property the caller or the site supplied: it is there, whatever its value
Supplied(v) == v.k # "undefined"

\* caller value, else site default, else built-in fallback
Precedence(u, d, fallback) == IF Supplied(u) THEN u ELSE IF Supplied(d) THEN d ELSE fallback

\* C14: in mergeCreateOptions each of rp.id, rp.name, user.name, user.displayName,
\* pubKeyCredParams, timeout and attestation equals the caller's value whenever the
\* caller supplied one, whatever that value is, otherwise the site default when one
\* is supplied, otherwise the built-in fallback.
C14_CallerThenSiteThenFallback ==
    Merged("create") =>
        LET u == bench.userOptions
            d == bench.defaults
            out == bench.out
        IN /\ out.rp.id = Precedence(Opt(Opt(u, "rp"), "id"), Opt(Opt(d, "rp"), "id"), hostname)
           /\ out.rp.name =
                  Precedence(Opt(Opt(u, "rp"), "name"), Opt(Opt(d, "rp"), "name"), hostname)
           /\ out.user.name =
                  Precedence(Opt(Opt(u, "user"), "name"), Opt(Opt(d, "user"), "name"),
                             userAtHostname)
           /\ out.user.displayName =
                  Precedence(Opt(Opt(u, "user"), "displayName"),
                             Opt(Opt(d, "user"), "displayName"), Str("User"))
           /\ out.pubKeyCredParams =
                  Precedence(Opt(u, "pubKeyCredParams"), Opt(d, "pubKeyCredParams"),
                             List(<<PubKeyParam(ES256), PubKeyParam(RS256)>>))
           /\ out.timeout = Precedence(Opt(u, "timeout"), Opt(d, "timeout"), Num(DefaultTimeout))
           /\ out.attestation =
                  Precedence(Opt(u, "attestation"), Opt(d, "attestation"), Str("none"))

\* C15: mergeGetOptions returns a fully populated request: challenge, rpId, timeout
\* and userVerification are present for every combination of caller options and
\* site defaults, both absent included; rpId is the current origin's domain and
\* timeout 60000 ms when neither gives one.
C15_FullyPopulated ==
    Merged("get") =>
        LET u == bench.userOptions
            d == bench.defaults
            out == bench.out
        IN /\ Supplied(out.challenge)
           /\ Supplied(out.rpId)
           /\ Supplied(out.timeout)
           /\ Supplied(out.userVerification)
           /\ (~Supplied(Opt(u, "rpId")) /\ ~Supplied(Opt(d, "rpId")) => out.rpId = hostname)
           /\ (~Supplied(Opt(u, "timeout")) /\ ~Supplied(Opt(d, "timeout"))
               => out.timeout = Num(DefaultTimeout))

\* the entries of a map-valued or list-valued property; none when it is absent
MapOf(v) == IF v.k = "map" THEN v.m ELSE <<>>
ItemsOf(v) == IF v.k = "list" THEN v.items ELSE <<>>
IdsOf(v) == {toArrayBuffer(ItemsOf(v)[i].id) : i \in 1..Len(ItemsOf(v))}
OutIdsOf(v) == {ItemsOf(v)[i].id : i \in 1..Len(ItemsOf(v))}

\* out holds every key of the caller's and of the site's map, the caller's value
\* where both have the key
UnionOfMaps(u, d, out) ==
    /\ DOMAIN MapOf(out) = DOMAIN MapOf(u) \cup DOMAIN MapOf(d)
    /\ \A key \in DOMAIN MapOf(out) :
           MapOf(out)[key] = IF key \in DOMAIN MapOf(u) THEN MapOf(u)[key] ELSE MapOf(d)[key]

\* out holds a descriptor for every credential of the caller's and of the site's list
UnionOfLists(u, d, out) == OutIdsOf(out) = IdsOf(u) \cup IdsOf(d)

\* C16: in both builders the list-valued fields are the union of caller and
\* site-default entries, the caller winning on key collision: excludeCredentials
\* and extensions in mergeCreateOptions, allowCredentials and extensions in
\* mergeGetOptions; no site-default entry is dropped because the caller supplied
\* none or supplied other keys.
C16_ListsAreUnions ==
    LET u == bench.userOptions
        d == bench.defaults
        out == bench.out
    IN /\ (Merged("create") =>
              /\ UnionOfLists(Opt(u, "excludeCredentials"), Opt(d, "excludeCredentials"),
                              out.excludeCredentials)
              /\ UnionOfMaps(Opt(u, "extensions"), Opt(d, "extensions"), out.extensions))
       /\ (Merged("get") =>
              /\ UnionOfLists(Opt(u, "allowCredentials"), Opt(d, "allowCredentials"),
                              out.allowCredentials)
              /\ UnionOfMaps(Opt(u, "extensions"), Opt(d, "extensions"), out.extensions))


\* C17: every entry of excludeCredentials returned by mergeCreateOptions and of
\* allowCredentials returned by mergeGetOptions has an id that is a binary buffer,
\* never a string and never undefined, for every id form a caller may pass: buffer,
\* byte array, or any string, the empty string included.
C17_IdsAreBuffers ==
    /\ (Merged("create") =>
           \A i \in 1..Len(ItemsOf(bench.out.excludeCredentials)) :
               ItemsOf(bench.out.excludeCredentials)[i].id.k = "ArrayBuffer")
    /\ (Merged("get") =>
           \A i \in 1..Len(ItemsOf(bench.out.allowCredentials)) :
               ItemsOf(bench.out.allowCredentials)[i].id.k = "ArrayBuffer")

\* C18: the challenge of every option set returned by mergeCreateOptions or
\* mergeGetOptions is a binary value of at least 16 bytes, whether generated (32
\* random bytes when the caller supplies none) or decoded from the caller's value.
C18_ChallengeLength ==
    bench.stage = "merged" =>
        /\ bench.out.challenge.k = "ArrayBuffer"
        /\ Len(bench.out.challenge.b) >= 16
        /\ (~Supplied(Opt(bench.userOptions, "challenge"))
            => Len(bench.out.challenge.b) = 32)

---------------------------------------------------------------------------
(* The authenticators *)

Authenticated == last.op \in {"WebAdapter.authenticate", "BiometricAuthWeb.authenticate"}

\* C19: within one WebAdapter.authenticate call the assertion ceremony and the
\* registration ceremony it falls back to never receive the same challenge value,
\* whether or not the caller supplied a challenge.
C19_ChallengeUsedOnce ==
    last.op = "WebAdapter.authenticate" =>
        \A i, j \in 1..Len(ceremonies) :
            i # j => ceremonies[i].challenge # ceremonies[j].challenge

\* C20: authenticate returns success = true only if navigator.credentials returned
\* a credential during the call; when every ceremony of the call fails or is
\* cancelled the result is success = false, no session is added to the sessions map
\* and no credential identifier is added to storage.
C20_SuccessNeedsCredential ==
    Authenticated =>
        LET answered == \E i \in 1..Len(ceremonies) : ceremonies[i].outcome.k = "credential"
        IN /\ (last.ret.success => answered)
           /\ (~answered =>
                  /\ ~last.ret.success
                  /\ sessions = last.preSessions
                  /\ localStorage = last.preStorage
                  /\ credentials = last.preCredentials)

\* WebAdapter.authenticate, with a credential id stored, ran the assertion and then
\* the registration; the user declined both and the call reported failure
C20_Witness ==
    /\ last.op = "WebAdapter.authenticate"
    /\ Len(ceremonies) = 2
    /\ ceremonies[1].outcome = Rejected("NotAllowedError")
    /\ ceremonies[2].outcome = Rejected("NotAllowedError")
    /\ Len(adapterGetStoredCredentialIds(localStorage).ids) > 0
    /\ ~last.ret.success


\* the codes USER_CANCELLED of the two error enumerations (core/types and definitions)
UserCancelledCodes == {"USER_CANCELLED", "userCancelled"}

\* C21: when navigator.credentials raises NotAllowedError during a ceremony (the
\* user dismissed or declined the prompt), authenticate returns success = false with
\* the code USER_CANCELLED, in BiometricAuthWeb.authenticate and in
\* WebAdapter.authenticate alike.
C21_CancelIsUserCancelled ==
    (/\ Authenticated
     /\ \E i \in 1..Len(ceremonies) : ceremonies[i].outcome = Rejected("NotAllowedError"))
    => (/\ ~last.ret.success
        /\ last.ret.code \in UserCancelledCodes)

\* C22: BiometricAuthWeb.authenticate invokes navigator.credentials.get when
\* credentials already exist for the user, and navigator.credentials.create only
\* when none exist.
C22_AssertWhenEnrolled ==
    last.op = "BiometricAuthWeb.authenticate" =>
        \A i \in 1..Len(ceremonies) :
            ceremonies[i].primitive = IF last.preEnrolled # {} THEN "get" ELSE "create"

\* C26: configure() called with a negative sessionDuration is rejected and the
\* negative value is not applied: the configuration is the one before the call, so
\* sessions created afterwards expire according to the previous sessionDuration.
C26_RejectedNotApplied ==
    (/\ last.op = "BiometricAuthWeb.configure"
     /\ last.arg.sessionDuration.k = "num"
     /\ last.arg.sessionDuration.num < 0)
    => (/\ last.ret = Throw
        /\ config = last.preConfig)


---------------------------------------------------------------------------
(* CredentialManager *)

\* decrypt or JSON.parse throws on stored string s when read with that flag
BlobUnreadable(s, decryptFlag) ==
    LET text == IF Sealing(decryptFlag) THEN decrypt(s) ELSE s
    IN text = Throw \/ JSONparse(text) = Throw

\* C24: a payload stored with storeCredential(id, p) is returned by getCredential(id),
\* called with the same encrypt/decrypt setting, until deleteCredential(id) or
\* clearAllCredentials() is called: no passage of time, session operation or
\* operation on a different id removes or changes it.
C24_HeldUntilDeleted ==
    \A id \in DOMAIN blobs :
        blobs[id].intact =>
            getCredentialOp(localStorage, id, blobs[id].encrypt).ret = Value(blobs[id].p)

\* both ids were stored, time passed, a session was written, and the other id was
\* deleted just now: the first is still held
C24_Witness ==
    /\ last.op = "deleteCredential"
    /\ last.id = "c2"
    /\ last.pre # NoItem
    /\ "c1" \in DOMAIN blobs
    /\ blobs["c1"].intact
    /\ blobs["c1"].encrypt
    /\ now > 0

\* C25: getCredential(id) never throws on a stored value it cannot decrypt or
\* parse; it returns null exactly as for an id that was never stored.
C25_UnreadableGivesNull ==
    last.op = "getCredential" =>
        LET stored == last.pre
        IN /\ last.ret # Throw
           /\ (stored = NoItem => last.ret = Null)
           /\ (stored # NoItem /\ BlobUnreadable(stored, last.flag) => last.ret = Null)

\* getCredential read, with decryption, a stored value another script had overwritten
\* with a string that is not base64, and returned null
C25_Witness ==
    /\ last.op = "getCredential"
    /\ last.flag
    /\ cipher = "ok"
    /\ last.id \in DOMAIN blobs
    /\ ~blobs[last.id].intact
    /\ last.pre = NotBase64
    /\ last.ret = Null


\* C30: the key space of CredentialManager is disjoint from every other
\* component's: listCredentialIds() returns exactly the ids stored with
\* storeCredential and not since deleted, and clearAllCredentials() removes only
\* those; neither reports nor deletes the index WebAdapter keeps under
\* 'biometric_credential_ids'.
C30_OwnKeysOnly ==
    /\ (last.op = "listCredentialIds" =>
           last.ret.ids = {<<id>> : id \in DOMAIN blobs})
    /\ (last.op = "clearAllCredentials" =>
           last.foreign \subseteq DOMAIN localStorage)

---------------------------------------------------------------------------
(* Storage failure *)

\* the calls that reach getItem, setItem or removeItem
ReachesStorage ==
    \/ last.op \in {"storeSession", "getSession", "clearSession", "isSessionValid",
                    "extendSession", "storeCredentialId", "getStoredCredentialIds",
                    "storeCredential", "getCredential", "deleteCredential"}
    \/ (last.op = "clearStoredCredentialIds" /\ Truthy(last.userId))

\* C23: a storage failure (localStorage or sessionStorage raising on getItem,
\* setItem or removeItem) propagates to the caller as an exception from every
\* operation of SessionManager, of the credential reference store and of
\* CredentialManager; none of them returns a normal value in place of the error.
C23_StorageFailurePropagates ==
    (Raises /\ ReachesStorage) => last.ret = Throw


---------------------------------------------------------------------------
(* Overlapping calls *)

\* no call is suspended
Quiescent == \A i \in DOMAIN bench.calls : bench.calls[i] = Done

\* C27: last writer wins: when storeSession or extendSession calls overlap, the
\* session held afterwards is the complete record written by whichever setItem ran
\* last, never a mixture of two; a following getSession() returns that record (if
\* unexpired).
C27_LastWriterWins ==
    (bench.stage = "race" /\ bench.kept # NoWrite) =>
        /\ session = bench.kept.env
        /\ (Quiescent =>
               getSessionOp(session, now).ret =
                   IF ExpiredAt(bench.kept.rec, now) THEN Null ELSE Value(bench.kept.rec))

\* C28: the purge of an expired session is atomic with the read that found it: a
\* getSession that read an expired or corrupt envelope never removes a record that
\* a storeSession wrote after that read.
C28_PurgeRemovesWhatWasRead ==
    (bench.stage = "race" /\ last.op \in {"getSession", "extendSession"}
     /\ last.what = "purge")
    => last.seen = last.writes

\* C29: after clearSession() completes, no session is in storage and
\* isSessionValid() is false until a later storeSession, even when an extendSession
\* that started before the logout completes after it.
C29_LoggedOutStaysOut ==
    (bench.stage = "race" /\ bench.loggedOut) =>
        /\ session = NoItem
        /\ isSessionValidOp(session, now).ret = Bool(FALSE)

=============================================================================
